---------------------------- MODULE Spec2Model ----------------------------
(***************************************************************************)
(* A model of mxjson (mxjson.h): the one-pass JSON parser, its token       *)
(* store, the navigation primitives and the unescape pass.                 *)
(*                                                                         *)
(* An input is a sequence of bytes (0..255).  A string slice (mxstr_t)     *)
(* that is a suffix of the input is represented by the number of input     *)
(* bytes that precede it; a slice inside the input by [off, len].          *)
(***************************************************************************)
EXTENDS Integers, Sequences, FiniteSets, TLC

(***************************************************************************)
(* Bytes                                                                   *)
(***************************************************************************)
TAB       == 9
LF        == 10
FF        == 12
CR        == 13
SPACE     == 32
DQUOTE    == 34
PLUS      == 43
COMMA     == 44
MINUS     == 45
DOT       == 46
SLASH     == 47
COLON     == 58
LBRACKET  == 91
BACKSLASH == 92
RBRACKET  == 93
LBRACE    == 123
RBRACE    == 125

Ch0 == 48
Ch1 == 49
Ch9 == 57
ChA == 65
ChD == 68
ChE == 69
ChF == 70
Cha == 97
Chb == 98
Chd == 100
Che == 101
Chf == 102
Chl == 108
Chn == 110
Chr == 114
Chs == 115
Cht == 116
Chu == 117

Byte == 0 .. 255

\* isdigit / isxdigit of <ctype.h> in the C locale
isdigit == Ch0 .. Ch9

isxdigit == (Ch0 .. Ch9) \cup (ChA .. ChF) \cup (Cha .. Chf)

\* the bytes mxjson_consume_ws skips
Whitespace == {SPACE, LF, CR, TAB}

\* the UTF-8 byte order mark consumed by mxjson_parse
BOM == <<239, 187, 191>>

\* the keywords of mxjson_parse_value
LitTrue == <<Cht, Chr, Chu, Che>>

LitFalse == <<Chf, Cha, Chl, Chs, Che>>

LitNull == <<Chn, Chu, Chl, Chl>>

max(a, b) == IF a > b THEN a ELSE b

\* Let(v, F) is F applied to v: the value v is named once and used in F
Let(v, F(_)) == F(v)

(***************************************************************************)
(* mxstr: the string-slice operations mxjson uses.  json is the input, s   *)
(* the number of bytes already consumed from it.                           *)
(***************************************************************************)
mxstr_empty(json, s) == s >= Len(json)

\* mxstr_getchar: the first byte of the slice (only read when not empty)
mxstr_getchar(json, s) == json[s + 1]

\* mxstr_consume(&s, n): drop n bytes, or as many as the slice holds
mxstr_consume(json, s, n) == IF s + n <= Len(json) THEN s + n ELSE Len(json)

\* mxstr_consume_char(&s, &c, cond): consume one byte when it satisfies
\* cond, given as the set of bytes C that satisfy it
mxstr_consume_char(json, s, C) ==
    IF ~mxstr_empty(json, s) /\ mxstr_getchar(json, s) \in C
    THEN [ok |-> TRUE, s |-> s + 1]
    ELSE [ok |-> FALSE, s |-> s]

\* mxstr_consume_chars(&s, &c, cond): consume the longest run of bytes in C
RECURSIVE mxstr_consume_chars(_, _, _)
mxstr_consume_chars(json, s, C) ==
    IF ~mxstr_empty(json, s) /\ mxstr_getchar(json, s) \in C
    THEN mxstr_consume_chars(json, s + 1, C)
    ELSE s

\* mxstr_consume_str(&s, lit): consume lit when the slice starts with it
mxstr_consume_str(json, s, lit) ==
    IF s + Len(lit) <= Len(json) /\ SubSeq(json, s + 1, s + Len(lit)) = lit
    THEN [ok |-> TRUE, s |-> s + Len(lit)]
    ELSE [ok |-> FALSE, s |-> s]

\* mxstr_prefix(a, b): the part of slice a that precedes its suffix b
mxstr_prefix(a, b) == [off |-> a, len |-> b - a]

\* the bytes of a slice [off, len] of the input
Bytes(json, v) == SubSeq(json, v.off + 1, v.off + v.len)

NoStr == [off |-> 0, len |-> 0]

(***************************************************************************)
(* Lexer                                                                   *)
(***************************************************************************)
mxjson_consume_ws(json, s) == mxstr_consume_chars(json, s, Whitespace)

\* mxjson_parse_number without the test of the first digit against '0'
mxjson_parse_number_ZeroThenDigits(json, str) ==
    Let(mxstr_consume_char(json, str, {MINUS}).s, LAMBDA s1 :
    Let(mxstr_consume_char(json, s1, isdigit), LAMBDA d1 :
        \* the integer part: a lone '0', or a non-zero digit and more digits
    Let(IF d1.ok /\ mxstr_getchar(json, s1) \in isdigit
              THEN mxstr_consume_chars(json, d1.s, isdigit)
              ELSE d1.s, LAMBDA s2 :
    Let(IF d1.ok THEN mxstr_consume_char(json, s2, {DOT})
               ELSE [ok |-> FALSE, s |-> s2], LAMBDA dot :
    Let(mxstr_consume_char(json, dot.s, isdigit), LAMBDA f1 :
    Let(IF dot.ok THEN f1.ok ELSE d1.ok, LAMBDA ok1 :
    Let(IF dot.ok THEN mxstr_consume_chars(json, f1.s, isdigit)
              ELSE dot.s, LAMBDA s3 :
    Let(IF ok1 THEN mxstr_consume_char(json, s3, {Che, ChE})
              ELSE [ok |-> FALSE, s |-> s3], LAMBDA ex :
    Let(mxstr_consume_char(json, ex.s, {PLUS, MINUS}).s, LAMBDA sg :
    Let(mxstr_consume_char(json, sg, isdigit), LAMBDA e1 :
    Let(IF ex.ok THEN e1.ok ELSE ok1, LAMBDA ok2 :
    Let(IF ex.ok THEN mxstr_consume_chars(json, e1.s, isdigit)
              ELSE ex.s, LAMBDA s4 :
        [ok |-> ok2, s |-> s4,
         value |-> IF ok2 THEN mxstr_prefix(str, s4) ELSE NoStr]))))))))))))

mxjson_parse_number(json, str) ==
    Let(mxstr_consume_char(json, str, {MINUS}).s, LAMBDA s1 :
    Let(mxstr_consume_char(json, s1, isdigit), LAMBDA d1 :
        \* the integer part: a lone '0', or a non-zero digit and more digits
    Let(IF d1.ok /\ mxstr_getchar(json, s1) # Ch0
              THEN mxstr_consume_chars(json, d1.s, isdigit)
              ELSE d1.s, LAMBDA s2 :
    Let(IF d1.ok THEN mxstr_consume_char(json, s2, {DOT})
               ELSE [ok |-> FALSE, s |-> s2], LAMBDA dot :
    Let(mxstr_consume_char(json, dot.s, isdigit), LAMBDA f1 :
    Let(IF dot.ok THEN f1.ok ELSE d1.ok, LAMBDA ok1 :
    Let(IF dot.ok THEN mxstr_consume_chars(json, f1.s, isdigit)
              ELSE dot.s, LAMBDA s3 :
    Let(IF ok1 THEN mxstr_consume_char(json, s3, {Che, ChE})
              ELSE [ok |-> FALSE, s |-> s3], LAMBDA ex :
    Let(mxstr_consume_char(json, ex.s, {PLUS, MINUS}).s, LAMBDA sg :
    Let(mxstr_consume_char(json, sg, isdigit), LAMBDA e1 :
    Let(IF ex.ok THEN e1.ok ELSE ok1, LAMBDA ok2 :
    Let(IF ex.ok THEN mxstr_consume_chars(json, e1.s, isdigit)
              ELSE ex.s, LAMBDA s4 :
        [ok |-> ok2, s |-> s4,
         value |-> IF ok2 THEN mxstr_prefix(str, s4) ELSE NoStr]))))))))))))

\* mxjson_parse_escaped_char consuming the byte after the backslash before it
\* looks at it
mxjson_parse_escaped_char_ConsumeAny(json, str, esc_flag) ==
    IF mxstr_empty(json, str)
    THEN [ok |-> FALSE, s |-> str, esc |-> esc_flag]
    ELSE Let(mxstr_getchar(json, str), LAMBDA c :
         Let(mxstr_consume_char(json, str + 1, isxdigit), LAMBDA h1 :
         Let(mxstr_consume_char(json, h1.s, isxdigit), LAMBDA h2 :
         Let(mxstr_consume_char(json, h2.s, isxdigit), LAMBDA h3 :
         Let(mxstr_consume_char(json, h3.s, isxdigit), LAMBDA h4 :
             IF c \in {DQUOTE, BACKSLASH, SLASH, Chb, Chf, Chn, Chr, Cht}
             THEN [ok |-> TRUE, s |-> str + 1, esc |-> TRUE]
             ELSE IF c = Chu
             THEN [ok |-> h1.ok /\ h2.ok /\ h3.ok /\ h4.ok,
                   s |-> IF ~h1.ok THEN h1.s ELSE IF ~h2.ok THEN h2.s
                         ELSE IF ~h3.ok THEN h3.s ELSE h4.s,
                   esc |-> TRUE]
             ELSE [ok |-> FALSE, s |-> str + 1, esc |-> esc_flag])))))

mxjson_parse_escaped_char(json, str, esc_flag) ==
    IF mxstr_empty(json, str)
    THEN [ok |-> FALSE, s |-> str, esc |-> esc_flag]
    ELSE Let(mxstr_getchar(json, str), LAMBDA c :
         Let(mxstr_consume_char(json, str + 1, isxdigit), LAMBDA h1 :
         Let(mxstr_consume_char(json, h1.s, isxdigit), LAMBDA h2 :
         Let(mxstr_consume_char(json, h2.s, isxdigit), LAMBDA h3 :
         Let(mxstr_consume_char(json, h3.s, isxdigit), LAMBDA h4 :
             IF c \in {DQUOTE, BACKSLASH, SLASH, Chb, Chf, Chn, Chr, Cht}
             THEN [ok |-> TRUE, s |-> str + 1, esc |-> TRUE]
             ELSE IF c = Chu
             THEN [ok |-> h1.ok /\ h2.ok /\ h3.ok /\ h4.ok,
                   s |-> IF ~h1.ok THEN h1.s ELSE IF ~h2.ok THEN h2.s
                         ELSE IF ~h3.ok THEN h3.s ELSE h4.s,
                   esc |-> TRUE]
             ELSE [ok |-> FALSE, s |-> str, esc |-> esc_flag])))))

\* the bytes the loop of mxjson_parse_string consumes: (c >= ' ') && (c != '"')
StringChar == (SPACE .. 255) \ {DQUOTE}

\* the while loop of mxjson_parse_string; c is the byte last stored by
\* mxstr_consume_char
RECURSIVE StringLoop(_, _, _, _)
StringLoop(json, s, esc_flag, c) ==
    Let(mxstr_consume_char(json, s, StringChar), LAMBDA r :
    Let(IF mxstr_empty(json, s) THEN c ELSE mxstr_getchar(json, s), LAMBDA c1 :
    Let(mxjson_parse_escaped_char(json, r.s, esc_flag), LAMBDA e :
        IF ~r.ok THEN [ok |-> TRUE, s |-> s, esc |-> esc_flag, c |-> c1]
        ELSE IF c1 # BACKSLASH THEN StringLoop(json, r.s, esc_flag, c1)
        ELSE IF e.ok THEN StringLoop(json, e.s, e.esc, c1)
        ELSE [ok |-> FALSE, s |-> e.s, esc |-> e.esc, c |-> c1])))

\* mxjson_parse_string without the test that bytes follow the opening quote
mxjson_parse_string_NoEmptyTest(json, str, esc_flag) ==
    Let(mxstr_consume_char(json, str, {DQUOTE}), LAMBDA q :
    Let(q.ok, LAMBDA ok0 :
    Let(q.s, LAMBDA start :
    Let(IF mxstr_empty(json, str) THEN 0 ELSE mxstr_getchar(json, str), LAMBDA c0 :
    Let(IF ok0 THEN StringLoop(json, start, esc_flag, c0)
             ELSE [ok |-> FALSE, s |-> start, esc |-> esc_flag, c |-> c0], LAMBDA l :
        IF l.ok /\ l.c = DQUOTE
        THEN [ok |-> TRUE, s |-> mxstr_consume(json, l.s, 1),
              value |-> mxstr_prefix(start, l.s), esc |-> l.esc]
        ELSE [ok |-> FALSE, s |-> l.s, value |-> NoStr, esc |-> l.esc])))))

mxjson_parse_string(json, str, esc_flag) ==
    Let(mxstr_consume_char(json, str, {DQUOTE}), LAMBDA q :
    Let(q.ok /\ ~mxstr_empty(json, q.s), LAMBDA ok0 :
    Let(q.s, LAMBDA start :
    Let(IF mxstr_empty(json, str) THEN 0 ELSE mxstr_getchar(json, str), LAMBDA c0 :
    Let(IF ok0 THEN StringLoop(json, start, esc_flag, c0)
             ELSE [ok |-> FALSE, s |-> start, esc |-> esc_flag, c |-> c0], LAMBDA l :
        IF l.ok /\ l.c = DQUOTE
        THEN [ok |-> TRUE, s |-> mxstr_consume(json, l.s, 1),
              value |-> mxstr_prefix(start, l.s), esc |-> l.esc]
        ELSE [ok |-> FALSE, s |-> l.s, value |-> NoStr, esc |-> l.esc])))))

(***************************************************************************)
(* Tokens and the token store                                              *)
(***************************************************************************)
MXJSON_NONE   == 0
MXJSON_NULL   == 1
MXJSON_BOOL   == 2
MXJSON_NUMBER == 3
MXJSON_STRING == 4
MXJSON_OBJECT == 5
MXJSON_ARRAY  == 6

MXJSON_IDX_NONE == 0

\* mxjson_token_t after memset(0).  The union of the C struct is kept as the
\* two words children and next: str shares the storage of children, str_size
\* that of next, and boolean the first byte of children.
ZeroToken ==
    [name |-> 0, name_size |-> 0, name_esc |-> FALSE, value_esc |-> FALSE,
     value_type |-> MXJSON_NONE, parent |-> 0, children |-> 0, next |-> 0]

\* a record of memory nobody cleared (the caller's array, or an array that a
\* custom callback allocated without clearing it)
JunkToken ==
    [name |-> 1, name_size |-> 1, name_esc |-> TRUE, value_esc |-> TRUE,
     value_type |-> MXJSON_ARRAY, parent |-> 1, children |-> 1, next |-> 1]

\* the overlaid members of the union
str(t) == t.children

str_size(t) == t.next

boolean(t) == t.children # 0

\* an array of n token records, all equal to fill
NewArray(n, fill) == [i \in 0 .. n - 1 |-> fill]

\* no array (tokens == NULL)
NoArray == [i \in {} |-> ZeroToken]

\* a new array that receives no copy of the old records
CopyInto_Nothing(new, old, count) == new

\* memcpy(tokens, p->tokens, p->count * sizeof(*tokens)) into a new array
CopyInto(new, old, count) ==
    [i \in DOMAIN new |-> IF i < count /\ i \in DOMAIN old THEN old[i] ELSE new[i]]

\* mxutil_size_p2: the first power of two larger than n
RECURSIVE P2From(_, _)
P2From(v, n) == IF v > n THEN v ELSE P2From(2 * v, n)

mxutil_size_p2(n) == P2From(1, n)

\* the number of records the pool of custom_resize_fn holds
CustomPool == 4

(***************************************************************************)
(* The parser context p (struct mxjson_parser_t).                          *)
(*   tokens     the records of the array p->tokens points to               *)
(*   where      which array that is: "NULL", "init" (the caller's array)   *)
(*              or "heap" (an array the resize callback allocated)         *)
(*   init_mem   the records of the caller's array while p->tokens points   *)
(*              elsewhere                                                  *)
(*   token      the index of the record p->token points to, 0 for NULL     *)
(*   init_tokens  whether the caller supplied an array                     *)
(*   heap       what malloc and free have seen: live, the number of arrays  *)
(*              allocated with mxutil_calloc and not yet passed to free;    *)
(*              freed_init, whether the caller's array was passed to free;  *)
(*              freed_stale, whether an array was passed to free again      *)
(*   resize_call  the last call of the resize callback since the start of   *)
(*              the last mxjson_parse: its size_hint and p->count at the    *)
(*              call                                                        *)
(*   token_stale  whether the array p->token points into has been replaced  *)
(*              or released since p->token was stored                       *)
(*   alloc_refused  whether mxjson_token has returned false in this parse   *)
(*   bad_deref  whether a write went through p->token while it was NULL,    *)
(*              stale, not the record idx, or after a refused allocation    *)
(***************************************************************************)

\* no call of the resize callback yet
NoCall == [size_hint |-> 0, count |-> 0, made |-> FALSE]

\* the heap before any allocation
NoHeap == [live |-> 0, freed_init |-> FALSE, freed_stale |-> FALSE]

\* mxutil_calloc: one more live array
mxutil_calloc(heap) == [heap EXCEPT !.live = @ + 1]

\* free(ptr), ptr being "NULL", "init" (the caller's array) or "heap" (the
\* array the callback allocated last)
free(heap, ptr) ==
    CASE ptr = "NULL" -> heap
      [] ptr = "init" -> [heap EXCEPT !.freed_init = TRUE]
      [] ptr = "heap" -> IF heap.live > 0 THEN [heap EXCEPT !.live = @ - 1]
                         ELSE [heap EXCEPT !.freed_stale = TRUE]

\* p->init_tokens as a pointer
init_tokens_ptr(p) == IF p.init_tokens THEN "init" ELSE "NULL"

\* mxjson_resize that frees the old array whatever it is
mxjson_resize_FreeAlways(p, size_hint) ==
    Let(IF size_hint # 0 THEN mxutil_calloc(p.heap) ELSE p.heap, LAMBDA h :
        [ok |-> TRUE,
         p |-> [p EXCEPT
                  !.tokens = IF size_hint # 0
                             THEN CopyInto(NewArray(size_hint, ZeroToken),
                                           p.tokens, p.count)
                             ELSE NoArray,
                  !.where = IF size_hint # 0 THEN "heap" ELSE "NULL",
                  !.init_mem = IF p.where = "init" THEN p.tokens
                               ELSE p.init_mem,
                  !.heap = free(h, p.where),
                  !.token_stale = TRUE,
                  !.count = size_hint]])

\* mxjson_resize: the malloc based callback
mxjson_resize(p, size_hint) ==
    Let(IF size_hint # 0 THEN mxutil_calloc(p.heap) ELSE p.heap, LAMBDA h :
        [ok |-> TRUE,
         p |-> [p EXCEPT
                  !.tokens = IF size_hint # 0
                             THEN CopyInto(NewArray(size_hint, ZeroToken),
                                           p.tokens, p.count)
                             ELSE NoArray,
                  !.where = IF size_hint # 0 THEN "heap" ELSE "NULL",
                  !.init_mem = IF p.where = "init" THEN p.tokens
                               ELSE p.init_mem,
                  !.heap = IF p.where # init_tokens_ptr(p)
                           THEN free(h, p.where) ELSE h,
                  !.token_stale = TRUE,
                  !.count = size_hint]])

\* mxjson_test_resize of the test suite: never allocates
mxjson_test_resize(p, size_hint) == [ok |-> (size_hint = 0), p |-> p]

\* a callback that follows the mxjson_resize_cb contract with a pool of
\* CustomPool uncleared records: it allocates exactly size_hint records and
\* refuses when the pool is too small
custom_resize_fn(p, size_hint) ==
    IF size_hint = 0
    THEN [ok |-> TRUE,
          p |-> [p EXCEPT
                   !.tokens = NoArray,
                   !.where = "NULL",
                   !.init_mem = IF p.where = "init" THEN p.tokens
                                ELSE p.init_mem,
                   !.token_stale = TRUE,
                   !.count = 0]]
    ELSE IF size_hint > CustomPool THEN [ok |-> FALSE, p |-> p]
    ELSE [ok |-> TRUE,
          p |-> [p EXCEPT
                   !.tokens = CopyInto(NewArray(size_hint, JunkToken),
                                       p.tokens, p.count),
                   !.where = "heap",
                   !.init_mem = IF p.where = "init" THEN p.tokens
                                ELSE p.init_mem,
                   !.token_stale = TRUE,
                   !.count = size_hint]]

\* p->resize_fn != NULL && p->resize_fn(p, size_hint)
CallResize(p, size_hint) ==
    Let([p EXCEPT !.resize_call = [size_hint |-> size_hint,
                                   count |-> p.count, made |-> TRUE]],
        LAMBDA p0 :
        CASE p.resize_fn = "NULL" -> [ok |-> FALSE, p |-> p]
          [] p.resize_fn = "mxjson_resize" -> mxjson_resize(p0, size_hint)
          [] p.resize_fn = "mxjson_test_resize" ->
                mxjson_test_resize(p0, size_hint)
          [] p.resize_fn = "custom_resize_fn" ->
                custom_resize_fn(p0, size_hint))

\* the first allocation asking for init_count records, however few
InitialAllocation_InitCount(p) ==
    Let(IF p.init_tokens /\ p.idx < p.init_count
             THEN [ok |-> TRUE,
                   p |-> [p EXCEPT !.tokens = p.init_mem, !.where = "init",
                                   !.count = p.init_count]]
             ELSE CallResize(p, p.init_count), LAMBDA r :
        IF r.ok
        THEN [ok |-> TRUE, p |-> [r.p EXCEPT !.tokens[0] = ZeroToken]]
        ELSE r)

\* the first allocation without the memset of the sentinel
InitialAllocation_KeepSentinel(p) ==
    Let(IF p.init_tokens /\ p.idx < p.init_count
             THEN [ok |-> TRUE,
                   p |-> [p EXCEPT !.tokens = p.init_mem, !.where = "init",
                                   !.count = p.init_count]]
             ELSE CallResize(p, max(p.idx + 1, p.init_count)), LAMBDA r :
        IF r.ok
        THEN [ok |-> TRUE, p |-> r.p]
        ELSE r)

\* the first allocation of mxjson_token (p->tokens == NULL)
InitialAllocation(p) ==
    Let(IF p.init_tokens /\ p.idx < p.init_count
             THEN [ok |-> TRUE,
                   p |-> [p EXCEPT !.tokens = p.init_mem, !.where = "init",
                                   !.count = p.init_count]]
             ELSE CallResize(p, max(p.idx + 1, p.init_count)), LAMBDA r :
        IF r.ok
        THEN [ok |-> TRUE, p |-> [r.p EXCEPT !.tokens[0] = ZeroToken]]
        ELSE r)

\* NewToken that leaves the parent of the new record cleared
NewToken_NoParent(p) ==
    Let(p.idx, LAMBDA idx :
    Let([p.tokens EXCEPT ![idx] = ZeroToken], LAMBDA cleared :
        [p EXCEPT
           !.tokens = [cleared EXCEPT ![p.current_parent].children = @ + 1],
           !.token = idx,
           !.token_stale = FALSE]))

\* NewToken that takes the token before the new one as its parent
NewToken_ParentPrev(p) ==
    Let(p.idx, LAMBDA idx :
    Let([p.tokens EXCEPT ![idx] = [ZeroToken EXCEPT !.parent = idx - 1]],
        LAMBDA cleared :
        [p EXCEPT
           !.tokens = [cleared EXCEPT ![p.current_parent].children = @ + 1],
           !.token = idx,
           !.token_stale = FALSE]))

\* NewToken without the memset of the new record
NewToken_NoClear(p) ==
    Let(p.idx, LAMBDA idx :
    Let([p.tokens EXCEPT ![idx].parent = p.current_parent], LAMBDA kept :
        [p EXCEPT
           !.tokens = [kept EXCEPT ![p.current_parent].children = @ + 1],
           !.token = idx,
           !.token_stale = FALSE]))

\* NewToken with the pointer to the record idx taken before the callback
\* replaced the array
NewToken_PointerBeforeResize(p) ==
    Let(p.idx, LAMBDA idx :
    Let([p.tokens EXCEPT ![idx] = [ZeroToken EXCEPT
                                              !.parent = p.current_parent]], LAMBDA cleared :
        [p EXCEPT
           !.tokens = [cleared EXCEPT ![p.current_parent].children = @ + 1],
           !.token = idx]))

\* the part of mxjson_token that writes the new record
NewToken(p) ==
    Let(p.idx, LAMBDA idx :
    Let([p.tokens EXCEPT ![idx] = [ZeroToken EXCEPT
                                              !.parent = p.current_parent]], LAMBDA cleared :
        [p EXCEPT
           !.tokens = [cleared EXCEPT ![p.current_parent].children = @ + 1],
           !.token = idx,
           !.token_stale = FALSE]))

\* mxjson_token that leaves idx as it was when the allocation is refused
mxjson_token_RestoreIdx(p) ==
    Let([p EXCEPT !.idx = p.idx + 1], LAMBDA p1 :
    Let(IF p1.idx >= p1.count
        THEN IF p1.where = "NULL" THEN InitialAllocation(p1)
             ELSE CallResize(p1, mxutil_size_p2(p1.count))
        ELSE [ok |-> TRUE, p |-> p1], LAMBDA r :
        IF r.ok THEN [ok |-> TRUE, p |-> NewToken(r.p)]
        ELSE [ok |-> FALSE, p |-> p]))

\* mxjson_token that writes the new record whatever the callback answered
mxjson_token_IgnoreRefusal(p) ==
    Let([p EXCEPT !.idx = p.idx + 1], LAMBDA p1 :
    Let(IF p1.idx >= p1.count
             THEN IF p1.where = "NULL" THEN InitialAllocation(p1)
                  ELSE CallResize(p1, mxutil_size_p2(p1.count))
             ELSE [ok |-> TRUE, p |-> p1], LAMBDA r :
        [ok |-> TRUE, p |-> NewToken(r.p)]))

mxjson_token(p) ==
    Let([p EXCEPT !.idx = p.idx + 1], LAMBDA p1 :
    Let(IF p1.idx >= p1.count
             THEN IF p1.where = "NULL" THEN InitialAllocation(p1)
                  ELSE CallResize(p1, mxutil_size_p2(p1.count))
             ELSE [ok |-> TRUE, p |-> p1], LAMBDA r :
        IF r.ok THEN [ok |-> TRUE, p |-> NewToken(r.p)]
        ELSE [ok |-> FALSE, p |-> [r.p EXCEPT !.alloc_refused = TRUE]]))

(***************************************************************************)
(* Parser                                                                  *)
(***************************************************************************)
\* p->token points to the record idx of the array p->tokens points to, and
\* no allocation has been refused since it was stored
TokenValid(p) ==
    /\ p.token # 0
    /\ ~p.token_stale
    /\ ~p.alloc_refused
    /\ p.token = p.idx
    /\ p.token \in DOMAIN p.tokens

\* a write of some fields through p->token
SetToken(p, t) ==
    [p EXCEPT !.tokens[p.token] = t,
              !.bad_deref = @ \/ ~TokenValid(p)]

CurToken(p) == p.tokens[p.token]

\* mxjson_parse_name that records the length and the escape flag of the
\* name but not its offset
mxjson_parse_name_NoOffset(p, strpos) ==
    Let(mxjson_parse_string(p.json, strpos, FALSE), LAMBDA n :
    Let(mxstr_consume_char(p.json, mxjson_consume_ws(p.json, n.s), {COLON}), LAMBDA c :
    Let(n.ok /\ c.ok, LAMBDA ok :
        [ok |-> ok,
         s |-> IF n.ok THEN c.s ELSE n.s,
         p |-> IF ok
               THEN SetToken(p, [CurToken(p) EXCEPT
                                   !.name_size = n.value.len,
                                   !.name_esc = n.esc])
               ELSE p])))

mxjson_parse_name(p, strpos) ==
    Let(mxjson_parse_string(p.json, strpos, FALSE), LAMBDA n :
    Let(mxstr_consume_char(p.json, mxjson_consume_ws(p.json, n.s), {COLON}), LAMBDA c :
    Let(n.ok /\ c.ok, LAMBDA ok :
        [ok |-> ok,
         s |-> IF n.ok THEN c.s ELSE n.s,
         p |-> IF ok
               THEN SetToken(p, [CurToken(p) EXCEPT
                                   !.name = n.value.off,
                                   !.name_size = n.value.len,
                                   !.name_esc = n.esc])
               ELSE p])))

\* the branches of mxjson_parse_value for true, false and null
ParseKeyword(p, strpos, type, b, text) ==
    Let(mxstr_consume_str(p.json, strpos, text), LAMBDA r :
        [ok |-> r.ok, s |-> r.s,
         p |-> SetToken(p, [CurToken(p) EXCEPT
                              !.value_type = type,
                              !.children = IF b THEN 1 ELSE @])])

\* the branch of mxjson_parse_value for a string
ParseStringValue(p, strpos) ==
    Let(mxjson_parse_string(p.json, strpos, FALSE), LAMBDA sv :
        [ok |-> sv.ok, s |-> sv.s,
         p |-> SetToken(p,
                 IF sv.ok
                 THEN [CurToken(p) EXCEPT !.value_type = MXJSON_STRING,
                                          !.children = sv.value.off,
                                          !.next = sv.value.len,
                                          !.value_esc = sv.esc]
                 ELSE [CurToken(p) EXCEPT !.value_type = MXJSON_STRING])])

\* the branch of mxjson_parse_value for a number
ParseNumberValue(p, strpos) ==
    Let(mxjson_parse_number(p.json, strpos), LAMBDA nv :
        [ok |-> nv.ok, s |-> nv.s,
         p |-> SetToken(p,
                 IF nv.ok
                 THEN [CurToken(p) EXCEPT !.value_type = MXJSON_NUMBER,
                                          !.children = nv.value.off,
                                          !.next = nv.value.len]
                 ELSE [CurToken(p) EXCEPT !.value_type = MXJSON_NUMBER])])

\* mxjson_parse_value that leaves the opening bracket or brace in the input
mxjson_parse_value_KeepBracket(p, strpos) ==
    IF mxstr_empty(p.json, strpos) THEN [ok |-> FALSE, s |-> strpos, p |-> p]
    ELSE Let(mxstr_getchar(p.json, strpos), LAMBDA c :
         CASE c = DQUOTE -> ParseStringValue(p, strpos)
           [] c \in {LBRACE, LBRACKET} ->
                [ok |-> TRUE, s |-> strpos,
                 p |-> [SetToken(p, [CurToken(p) EXCEPT !.value_type =
                            IF c = LBRACE THEN MXJSON_OBJECT
                            ELSE MXJSON_ARRAY])
                        EXCEPT !.current_parent = p.idx]]
           [] c = Cht -> ParseKeyword(p, strpos, MXJSON_BOOL, TRUE, LitTrue)
           [] c = Chf -> ParseKeyword(p, strpos, MXJSON_BOOL, FALSE, LitFalse)
           [] c = Chn -> ParseKeyword(p, strpos, MXJSON_NULL, FALSE, LitNull)
           [] c \in {MINUS} \cup isdigit -> ParseNumberValue(p, strpos)
           [] OTHER -> [ok |-> FALSE, s |-> strpos, p |-> p])

mxjson_parse_value(p, strpos) ==
    IF mxstr_empty(p.json, strpos) THEN [ok |-> FALSE, s |-> strpos, p |-> p]
    ELSE Let(mxstr_getchar(p.json, strpos), LAMBDA c :
         CASE c = DQUOTE -> ParseStringValue(p, strpos)
           [] c \in {LBRACE, LBRACKET} ->
                [ok |-> TRUE, s |-> mxstr_consume(p.json, strpos, 1),
                 p |-> [SetToken(p, [CurToken(p) EXCEPT !.value_type =
                            IF c = LBRACE THEN MXJSON_OBJECT
                            ELSE MXJSON_ARRAY])
                        EXCEPT !.current_parent = p.idx]]
           [] c = Cht -> ParseKeyword(p, strpos, MXJSON_BOOL, TRUE, LitTrue)
           [] c = Chf -> ParseKeyword(p, strpos, MXJSON_BOOL, FALSE, LitFalse)
           [] c = Chn -> ParseKeyword(p, strpos, MXJSON_NULL, FALSE, LitNull)
           [] c \in {MINUS} \cup isdigit -> ParseNumberValue(p, strpos)
           [] OTHER -> [ok |-> FALSE, s |-> strpos, p |-> p])

\* mxjson_ascend recording the last token of the closed object or array
\* instead of the token after it
RECURSIVE AscendLoop_LastToken(_, _, _)
AscendLoop_LastToken(p, s0, parent) ==
    Let(p.tokens[parent], LAMBDA token :
    Let(mxjson_consume_ws(p.json, s0), LAMBDA s1 :
    Let(IF token.value_type = MXJSON_ARRAY
                 THEN mxstr_consume_char(p.json, s1, {RBRACKET})
                 ELSE IF token.value_type = MXJSON_OBJECT
                 THEN mxstr_consume_char(p.json, s1, {RBRACE})
                 ELSE [ok |-> FALSE, s |-> s1], LAMBDA close :
        IF close.ok
        THEN AscendLoop_LastToken([p EXCEPT !.tokens[parent].next = p.idx],
                                  close.s, token.parent)
        ELSE [p |-> p, s |-> s1, parent |-> parent])))

\* the do-while loop of mxjson_ascend, entered with parent # MXJSON_IDX_NONE
RECURSIVE AscendLoop(_, _, _)
AscendLoop(p, s0, parent) ==
    Let(p.tokens[parent], LAMBDA token :
    Let(mxjson_consume_ws(p.json, s0), LAMBDA s1 :
    Let(IF token.value_type = MXJSON_ARRAY
                 THEN mxstr_consume_char(p.json, s1, {RBRACKET})
                 ELSE IF token.value_type = MXJSON_OBJECT
                 THEN mxstr_consume_char(p.json, s1, {RBRACE})
                 ELSE [ok |-> FALSE, s |-> s1], LAMBDA close :
        IF close.ok
        THEN AscendLoop([p EXCEPT !.tokens[parent].next = p.idx + 1],
                        close.s, token.parent)
        ELSE [p |-> p, s |-> s1, parent |-> parent])))

mxjson_ascend(p, strpos) ==
    IF p.current_parent # MXJSON_IDX_NONE
    THEN AscendLoop(p, strpos, p.current_parent)
    ELSE [p |-> p, s |-> strpos, parent |-> p.current_parent]

\* NextMember without the check for ',' between members
NextMember_NoComma(p, s0, parent) ==
    Let(mxjson_consume_ws(p.json, s0), LAMBDA s1 :
    Let(mxstr_consume_char(p.json, s1, {COMMA}), LAMBDA comma :
    Let(mxjson_token(p), LAMBDA tk :
    Let(mxjson_parse_name(tk.p, mxjson_consume_ws(p.json, comma.s)), LAMBDA nm :
        IF tk.ok /\ tk.p.tokens[parent].value_type = MXJSON_OBJECT
        THEN [ok |-> nm.ok, s |-> nm.s, p |-> nm.p, refused |-> FALSE]
        ELSE [ok |-> tk.ok, s |-> comma.s, p |-> tk.p,
              refused |-> comma.ok /\ ~tk.ok]))))

\* NextMember with a token for the member name and another for its value
NextMember_NameToken(p, s0, parent) ==
    Let(mxjson_consume_ws(p.json, s0), LAMBDA s1 :
    Let(IF parent = p.idx THEN [ok |-> TRUE, s |-> s1]
                 ELSE mxstr_consume_char(p.json, s1, {COMMA}), LAMBDA comma :
    Let(IF comma.ok THEN mxjson_token(p) ELSE [ok |-> FALSE, p |-> p], LAMBDA tk :
    Let(mxjson_parse_name(tk.p, mxjson_consume_ws(p.json, comma.s)), LAMBDA nm :
    Let(mxjson_token(nm.p), LAMBDA vt :
        IF tk.ok /\ tk.p.tokens[parent].value_type = MXJSON_OBJECT
        THEN [ok |-> nm.ok /\ vt.ok, s |-> nm.s,
              p |-> IF nm.ok THEN vt.p ELSE nm.p,
              refused |-> nm.ok /\ ~vt.ok]
        ELSE [ok |-> tk.ok, s |-> comma.s, p |-> tk.p,
              refused |-> comma.ok /\ ~tk.ok])))))

\* NextMember that allocates the token of a member only when input is left
NextMember_PeekFirst(p, s0, parent) ==
    Let(mxjson_consume_ws(p.json, s0), LAMBDA s1 :
    Let(IF parent = p.idx THEN [ok |-> TRUE, s |-> s1]
                 ELSE mxstr_consume_char(p.json, s1, {COMMA}), LAMBDA comma :
    Let(IF comma.ok /\ ~mxstr_empty(p.json, comma.s) THEN mxjson_token(p)
        ELSE [ok |-> FALSE, p |-> p], LAMBDA tk :
    Let(mxjson_parse_name(tk.p, mxjson_consume_ws(p.json, comma.s)), LAMBDA nm :
        IF tk.ok /\ tk.p.tokens[parent].value_type = MXJSON_OBJECT
        THEN [ok |-> nm.ok, s |-> nm.s, p |-> nm.p, refused |-> FALSE]
        ELSE [ok |-> tk.ok, s |-> comma.s, p |-> tk.p,
              refused |-> FALSE]))))

\* the step to the next member after a value: the ',' unless this is the
\* first member, a new token, and the member name inside an object; refused
\* tells whether mxjson_token was called and returned false
NextMember(p, s0, parent) ==
    Let(mxjson_consume_ws(p.json, s0), LAMBDA s1 :
    Let(IF parent = p.idx THEN [ok |-> TRUE, s |-> s1]
                 ELSE mxstr_consume_char(p.json, s1, {COMMA}), LAMBDA comma :
    Let(IF comma.ok THEN mxjson_token(p) ELSE [ok |-> FALSE, p |-> p], LAMBDA tk :
    Let(mxjson_parse_name(tk.p, mxjson_consume_ws(p.json, comma.s)), LAMBDA nm :
        IF tk.ok /\ tk.p.tokens[parent].value_type = MXJSON_OBJECT
        THEN [ok |-> nm.ok, s |-> nm.s, p |-> nm.p, refused |-> FALSE]
        ELSE [ok |-> tk.ok, s |-> comma.s, p |-> tk.p,
              refused |-> comma.ok /\ ~tk.ok]))))

\* one iteration of the do-while loop of mxjson_parse_json
ParseJsonIteration(p, s0) ==
    Let(mxjson_parse_value(p, mxjson_consume_ws(p.json, s0)), LAMBDA v :
    Let(mxjson_ascend(v.p, v.s), LAMBDA a :
    Let([a.p EXCEPT !.current_parent = a.parent], LAMBDA p2 :
        IF ~v.ok THEN [ok |-> FALSE, s |-> v.s, p |-> v.p, refused |-> FALSE]
        ELSE IF a.parent # MXJSON_IDX_NONE THEN NextMember(p2, a.s, a.parent)
        ELSE [ok |-> TRUE, s |-> a.s, p |-> p2, refused |-> FALSE])))

\* the end of mxjson_parse_json, after the loop
ParseJsonEnd(p, s0, ok) ==
    Let(IF ok THEN mxjson_consume_ws(p.json, s0) ELSE s0, LAMBDA s1 :
        [ok |-> ok /\ mxstr_empty(p.json, s1),
         p |-> [p EXCEPT !.unparsed = s1]])

\* ParseStart that does not reset idx
ParseStart_KeepIdx(p, json) ==
    Let([p EXCEPT !.json = json,
                  !.unparsed = mxstr_consume_str(json, 0, BOM).s,
                  !.token = 0,
                  !.resize_call = NoCall,
                  !.alloc_refused = FALSE,
                  !.current_parent = MXJSON_IDX_NONE], LAMBDA p1 :
        mxjson_token(p1))

\* mxjson_parse up to the call of mxjson_parse_json
ParseStart(p, json) ==
    Let([p EXCEPT !.json = json,
                        !.unparsed = mxstr_consume_str(json, 0, BOM).s,
                        !.token = 0,
                        !.resize_call = NoCall,
                        !.alloc_refused = FALSE,
                        !.current_parent = MXJSON_IDX_NONE,
                        !.idx = MXJSON_IDX_NONE], LAMBDA p1 :
        mxjson_token(p1))

\* mxjson_parse_json from cursor s0 to its return
RECURSIVE mxjson_parse_json(_, _)
mxjson_parse_json(p, s0) ==
    Let(ParseJsonIteration(p, s0), LAMBDA r :
        IF r.ok /\ r.p.current_parent # MXJSON_IDX_NONE
        THEN mxjson_parse_json(r.p, r.s)
        ELSE ParseJsonEnd(r.p, r.s, r.ok))

\* mxjson_parse as one function: [ok, p]
mxjson_parse(p, json) ==
    Let(ParseStart(p, json), LAMBDA t :
        IF t.ok THEN mxjson_parse_json(t.p, t.p.unparsed) ELSE t)

\* the context after mxjson_init(p, init_count, tokens, resize_fn); tokens
\* tells whether the caller passed an array, mem is what that array holds
mxjson_init(init_count, tokens, mem, resize_fn) ==
    [json |-> <<>>, unparsed |-> 0, idx |-> 0, count |-> 0,
     tokens |-> NoArray, where |-> "NULL", token |-> 0, current_parent |-> 0,
     init_count |-> init_count, init_tokens |-> tokens,
     init_mem |-> mem, resize_fn |-> resize_fn, heap |-> NoHeap,
     resize_call |-> NoCall, token_stale |-> FALSE, alloc_refused |-> FALSE,
     bad_deref |-> FALSE]

\* mxjson_free
mxjson_free(p) ==
    Let(IF p.resize_fn # "NULL" THEN CallResize(p, 0).p ELSE p, LAMBDA r :
        [r EXCEPT !.count = 0, !.tokens = NoArray, !.where = "NULL",
                  !.token_stale = TRUE,
                  !.init_mem = IF r.where = "init" THEN r.tokens ELSE @])

(***************************************************************************)
(* Navigation                                                              *)
(***************************************************************************)
mxjson_first(p, idx) == idx + 1

\* mxjson_next without the skip over the members of an object or array
mxjson_next_NoSkip(p, idx) == idx + 1

mxjson_next(p, idx) ==
    IF p.tokens[idx].value_type \in {MXJSON_OBJECT, MXJSON_ARRAY}
    THEN p.tokens[idx].next
    ELSE idx + 1

\* the loop "while (index != last) index = mxjson_next(&p, index)" of the
\* usage example: the indices it visits, and whether it ended within fuel
\* iterations without leaving tokens 1..idx
RECURSIVE WalkLoop(_, _, _, _, _)
WalkLoop(p, index, last, visited, fuel) ==
    IF index = last THEN [done |-> TRUE, visited |-> visited]
    ELSE IF fuel = 0 \/ index \notin 1 .. p.idx \/ index \notin DOMAIN p.tokens
    THEN [done |-> FALSE, visited |-> visited]
    ELSE WalkLoop(p, mxjson_next(p, index), last, Append(visited, index),
                  fuel - 1)

\* the loop over the immediate children of parent_index
WalkChildren(p, parent_index) ==
    WalkLoop(p, mxjson_first(p, parent_index), mxjson_next(p, parent_index),
             <<>>, p.idx + 1)

(***************************************************************************)
(* Unescaping.  buffer is the sequence of bytes written to the caller's     *)
(* mxbuf so far; its available slice starts after the last of them.  lex is *)
(* the string passed to mxjson_unescape and s the number of its bytes       *)
(* consumed.                                                               *)
(***************************************************************************)
\* the UTF-8 encoding of the code point v
Utf8(v) ==
    IF v < 128 THEN <<v>>
    ELSE IF v < 2048 THEN <<192 + (v \div 64), 128 + (v % 64)>>
    ELSE IF v < 65536
    THEN <<224 + (v \div 4096), 128 + ((v \div 64) % 64), 128 + (v % 64)>>
    ELSE <<240 + (v \div 262144), 128 + ((v \div 4096) % 64),
           128 + ((v \div 64) % 64), 128 + (v % 64)>>

\* mxbuf_put_utf8(buffer, v): append the UTF-8 encoding of v; refused for a
\* surrogate code point and beyond U+10FFFF
mxbuf_put_utf8(buffer, v) ==
    IF (v >= 55296 /\ v < 57344) \/ v > 1114111
    THEN [ok |-> FALSE, buffer |-> buffer]
    ELSE [ok |-> TRUE, buffer |-> buffer \o Utf8(v)]

\* HexValue without the fold of lower case to upper case
HexValue_UpperOnly(c) ==
    IF c > Ch9 THEN c - ChA + 10 ELSE c - Ch0

\* c = (c > '9') ? (c & ~0x20) - 'A' + 10 : (c - '0')
HexValue(c) ==
    IF c > Ch9
    THEN (IF (c \div 32) % 2 = 1 THEN c - 32 ELSE c) - ChA + 10
    ELSE c - Ch0

\* the for loop of mxjson_hex, before its iteration i
RECURSIVE HexLoop(_, _, _, _)
HexLoop(lex, s, v, i) ==
    IF i = 4 THEN [ok |-> TRUE, s |-> s, v |-> v]
    ELSE Let(mxstr_consume_char(lex, s, isxdigit), LAMBDA r :
             IF r.ok
             THEN HexLoop(lex, r.s, v * 16 + HexValue(mxstr_getchar(lex, s)),
                          i + 1)
             ELSE [ok |-> FALSE, s |-> r.s, v |-> v])

mxjson_hex(lex, s) == HexLoop(lex, s, 0, 0)

\* UnescapeU that takes any \u escape as the second half of a pair
UnescapeU_AnySecondUnit(buffer, lex, s) ==
    Let(mxjson_hex(lex, s), LAMBDA h1 :
        IF h1.ok /\ h1.v >= 55296 /\ h1.v < 56320
        THEN Let(mxstr_consume_char(lex, h1.s, {BACKSLASH}), LAMBDA b :
             Let(IF b.ok THEN mxstr_consume_char(lex, b.s, {Chu}) ELSE b,
                 LAMBDA u :
             Let(IF u.ok THEN mxjson_hex(lex, u.s)
                 ELSE [ok |-> FALSE, s |-> u.s, v |-> 0], LAMBDA h2 :
                 IF h2.ok
                 THEN Let(mxbuf_put_utf8(buffer,
                              65536 + (h1.v - 55296) * 1024 + (h2.v - 56320)),
                          LAMBDA w :
                          [ok |-> w.ok, s |-> h2.s, buffer |-> w.buffer])
                 ELSE [ok |-> FALSE, s |-> h2.s, buffer |-> buffer])))
        ELSE IF h1.ok
        THEN Let(mxbuf_put_utf8(buffer, h1.v), LAMBDA w :
                 [ok |-> w.ok, s |-> h1.s, buffer |-> w.buffer])
        ELSE [ok |-> FALSE, s |-> h1.s, buffer |-> buffer])

\* UnescapeU that ignores what mxbuf_put_utf8 returns for a single escape
UnescapeU_IgnorePut(buffer, lex, s) ==
    Let(mxjson_hex(lex, s), LAMBDA h1 :
        IF h1.ok /\ h1.v >= 55296 /\ h1.v < 56320
        THEN Let(mxstr_consume_char(lex, h1.s, {BACKSLASH}), LAMBDA b :
             Let(IF b.ok THEN mxstr_consume_char(lex, b.s, {Chu}) ELSE b,
                 LAMBDA u :
             Let(IF u.ok THEN mxjson_hex(lex, u.s)
                 ELSE [ok |-> FALSE, s |-> u.s, v |-> 0], LAMBDA h2 :
                 IF h2.ok /\ h2.v >= 56320 /\ h2.v < 57344
                 THEN Let(mxbuf_put_utf8(buffer,
                              65536 + (h1.v - 55296) * 1024 + (h2.v - 56320)),
                          LAMBDA w :
                          [ok |-> w.ok, s |-> h2.s, buffer |-> w.buffer])
                 ELSE [ok |-> FALSE, s |-> h2.s, buffer |-> buffer])))
        ELSE IF h1.ok
        THEN Let(mxbuf_put_utf8(buffer, h1.v), LAMBDA w :
                 [ok |-> TRUE, s |-> h1.s, buffer |-> w.buffer])
        ELSE [ok |-> FALSE, s |-> h1.s, buffer |-> buffer])

\* case 'u' of mxjson_unescape: [ok, s, buffer]
UnescapeU(buffer, lex, s) ==
    Let(mxjson_hex(lex, s), LAMBDA h1 :
        IF h1.ok /\ h1.v >= 55296 /\ h1.v < 56320
        THEN Let(mxstr_consume_char(lex, h1.s, {BACKSLASH}), LAMBDA b :
             Let(IF b.ok THEN mxstr_consume_char(lex, b.s, {Chu}) ELSE b,
                 LAMBDA u :
             Let(IF u.ok THEN mxjson_hex(lex, u.s)
                 ELSE [ok |-> FALSE, s |-> u.s, v |-> 0], LAMBDA h2 :
                 IF h2.ok /\ h2.v >= 56320 /\ h2.v < 57344
                 THEN Let(mxbuf_put_utf8(buffer,
                              65536 + (h1.v - 55296) * 1024 + (h2.v - 56320)),
                          LAMBDA w :
                          [ok |-> w.ok, s |-> h2.s, buffer |-> w.buffer])
                 ELSE [ok |-> FALSE, s |-> h2.s, buffer |-> buffer])))
        ELSE IF h1.ok
        THEN Let(mxbuf_put_utf8(buffer, h1.v), LAMBDA w :
                 [ok |-> w.ok, s |-> h1.s, buffer |-> w.buffer])
        ELSE [ok |-> FALSE, s |-> h1.s, buffer |-> buffer])

\* the switch of mxjson_unescape on the byte c that follows a backslash
UnescapeChar(buffer, lex, s, c) ==
    CASE c \in {DQUOTE, BACKSLASH, SLASH} ->
            [ok |-> TRUE, s |-> s, buffer |-> Append(buffer, c)]
      [] c = Chb -> [ok |-> TRUE, s |-> s, buffer |-> Append(buffer, 8)]
      [] c = Chf -> [ok |-> TRUE, s |-> s, buffer |-> Append(buffer, FF)]
      [] c = Chn -> [ok |-> TRUE, s |-> s, buffer |-> Append(buffer, LF)]
      [] c = Chr -> [ok |-> TRUE, s |-> s, buffer |-> Append(buffer, CR)]
      [] c = Cht -> [ok |-> TRUE, s |-> s, buffer |-> Append(buffer, TAB)]
      [] c = Chu -> UnescapeU(buffer, lex, s)
      [] OTHER -> [ok |-> FALSE, s |-> s, buffer |-> buffer]

\* the while loop of mxjson_unescape, entered with ok true: [ok, buffer]
RECURSIVE UnescapeLoop(_, _, _)
UnescapeLoop(buffer, lex, s) ==
    IF mxstr_empty(lex, s) THEN [ok |-> TRUE, buffer |-> buffer]
    ELSE Let(mxstr_consume_chars(lex, s, Byte \ {BACKSLASH}), LAMBDA s1 :
         Let(buffer \o SubSeq(lex, s + 1, s1), LAMBDA written :
         Let(mxstr_consume_char(lex, mxstr_consume(lex, s1, 1), Byte),
             LAMBDA r :
             IF ~r.ok THEN [ok |-> FALSE, buffer |-> written]
             ELSE Let(UnescapeChar(written, lex, r.s,
                                   mxstr_getchar(lex, r.s - 1)), LAMBDA e :
                      IF e.ok THEN UnescapeLoop(e.buffer, lex, e.s)
                      ELSE [ok |-> FALSE, buffer |-> e.buffer]))))

mxjson_unescape(buffer, lex) == UnescapeLoop(buffer, lex, 0)

\* a string a function returns: mem tells the memory it points into ("json":
\* the input, "buffer": the caller's buffer, or the literal it is), off and
\* len the bytes it covers there
InJson(v) == [mem |-> "json", off |-> v.off, len |-> v.len]

InBuffer(s, available) == [mem |-> "buffer", off |-> s, len |-> available - s]

mxstr_literal(text) == [mem |-> text, off |-> 0, len |-> Len(text)]

NullStr == [mem |-> "NULL", off |-> 0, len |-> 0]

\* mxjson_token_name(p, idx, buffer, &valid): [str, valid, buffer]
mxjson_token_name(p, idx, buffer) ==
    Let(p.tokens[idx], LAMBDA token :
    Let([off |-> token.name, len |-> token.name_size], LAMBDA v :
        IF token.name_esc
        THEN Let(mxjson_unescape(buffer, Bytes(p.json, v)), LAMBDA u :
                 [str |-> IF u.ok THEN InBuffer(Len(buffer), Len(u.buffer))
                          ELSE InJson(v),
                  valid |-> u.ok, buffer |-> u.buffer])
        ELSE [str |-> InJson(v), valid |-> TRUE, buffer |-> buffer]))

\* mxjson_token_string that unescapes whatever value_esc says
mxjson_token_string_AlwaysUnescape(p, idx, buffer) ==
    Let(p.tokens[idx], LAMBDA token :
    Let([off |-> str(token), len |-> str_size(token)], LAMBDA v :
        CASE token.value_type = MXJSON_NULL ->
                [str |-> mxstr_literal("null"), valid |-> TRUE,
                 buffer |-> buffer]
          [] token.value_type = MXJSON_BOOL ->
                [str |-> IF boolean(token) THEN mxstr_literal("true")
                         ELSE mxstr_literal("false"),
                 valid |-> TRUE, buffer |-> buffer]
          [] token.value_type \in {MXJSON_NUMBER, MXJSON_STRING} ->
                IF TRUE
                THEN Let(mxjson_unescape(buffer, Bytes(p.json, v)), LAMBDA u :
                         [str |-> IF u.ok
                                  THEN InBuffer(Len(buffer), Len(u.buffer))
                                  ELSE InJson(v),
                          valid |-> u.ok, buffer |-> u.buffer])
                ELSE [str |-> InJson(v), valid |-> TRUE, buffer |-> buffer]
          [] token.value_type = MXJSON_OBJECT ->
                [str |-> mxstr_literal("object"), valid |-> TRUE,
                 buffer |-> buffer]
          [] token.value_type = MXJSON_ARRAY ->
                [str |-> mxstr_literal("array"), valid |-> TRUE,
                 buffer |-> buffer]
          [] OTHER -> [str |-> NullStr, valid |-> TRUE, buffer |-> buffer]))

\* mxjson_token_string(p, idx, buffer, &valid): [str, valid, buffer]
mxjson_token_string(p, idx, buffer) ==
    Let(p.tokens[idx], LAMBDA token :
    Let([off |-> str(token), len |-> str_size(token)], LAMBDA v :
        CASE token.value_type = MXJSON_NULL ->
                [str |-> mxstr_literal("null"), valid |-> TRUE,
                 buffer |-> buffer]
          [] token.value_type = MXJSON_BOOL ->
                [str |-> IF boolean(token) THEN mxstr_literal("true")
                         ELSE mxstr_literal("false"),
                 valid |-> TRUE, buffer |-> buffer]
          [] token.value_type \in {MXJSON_NUMBER, MXJSON_STRING} ->
                IF token.value_esc
                THEN Let(mxjson_unescape(buffer, Bytes(p.json, v)), LAMBDA u :
                         [str |-> IF u.ok
                                  THEN InBuffer(Len(buffer), Len(u.buffer))
                                  ELSE InJson(v),
                          valid |-> u.ok, buffer |-> u.buffer])
                ELSE [str |-> InJson(v), valid |-> TRUE, buffer |-> buffer]
          [] token.value_type = MXJSON_OBJECT ->
                [str |-> mxstr_literal("object"), valid |-> TRUE,
                 buffer |-> buffer]
          [] token.value_type = MXJSON_ARRAY ->
                [str |-> mxstr_literal("array"), valid |-> TRUE,
                 buffer |-> buffer]
          [] OTHER -> [str |-> NullStr, valid |-> TRUE, buffer |-> buffer]))

(***************************************************************************)
(* Bounds of the model                                                     *)
(***************************************************************************)
\* the longest input of Spec, in bytes
MaxLen == 3

\* the largest init_count passed to mxjson_init
MaxInitCount == 3

\* the number of mxjson_parse calls on one context
MaxParses == 2

\* the longest input of SpecGrammar, in atoms
MaxAtoms == 5

\* the longest run of padding before a padded input of SpecGrammar, and the
\* longest text between the padding, in atoms
MaxPad == 2

MaxCore == 2

\* the longest inputs of SpecTree, in atoms: nested arrays, and texts with
\* objects
MaxNest == 8

MaxMembers == 5

\* the longest string of SpecString, in atoms
MaxStringAtoms == 3

\* the number of calls of mxjson_token_string and mxjson_token_name that
\* share one buffer
MaxCalls == 2

\* how far from D800, DC00 and E000 the code units of SpecSurrogate lie
MaxEdge == 2

(***************************************************************************)
(* Inputs                                                                  *)
(***************************************************************************)
\* all sequences of at most n elements of S
SeqsUpTo(S, n) == UNION {[1 .. k -> S] : k \in 0 .. n}

\* the concatenation of a sequence of byte sequences
RECURSIVE Flatten(_)
Flatten(ws) == IF ws = <<>> THEN <<>> ELSE Head(ws) \o Flatten(Tail(ws))

\* the inputs of Spec: nested arrays and a number
StoreInputs == SeqsUpTo({LBRACKET, RBRACKET, Ch1}, MaxLen)

\* the atoms of the inputs of SpecGrammar: the structural bytes, a space, a
\* number and a string; and the padding put around a short text: white space,
\* a form feed and the byte order mark
Atoms ==
    {<<LBRACKET>>, <<RBRACKET>>, <<LBRACE>>, <<RBRACE>>, <<COMMA>>, <<COLON>>,
     <<SPACE>>, <<Ch1>>, <<DQUOTE, Cha, DQUOTE>>}

Pads == {<<SPACE>>, <<LF>>, <<CR>>, <<TAB>>, <<FF>>, BOM}

\* the atoms of the inputs of SpecTree.  NestAtoms: arrays of arrays and
\* numbers.  MemberAtoms: objects and arrays, a member name with its colon
\* being one atom (the names "a" and "").
NestAtoms == {<<LBRACKET>>, <<RBRACKET>>, <<COMMA>>, <<Ch1>>}

MemberAtoms ==
    {<<LBRACKET>>, <<RBRACKET>>, <<LBRACE>>, <<RBRACE>>, <<COMMA>>, <<Ch1>>,
     <<DQUOTE, Cha, DQUOTE, COLON>>, <<DQUOTE, DQUOTE, COLON>>}

\* the atoms of the strings of SpecString: a letter, the escapes \n and \\,
\* \u00e9 and \u1e01 (two and three bytes of UTF-8), a high and a low
\* surrogate
uXXXX(h) == <<BACKSLASH, Chu>> \o h

StringAtoms ==
    {<<Cha>>, <<BACKSLASH, Chn>>, <<BACKSLASH, BACKSLASH>>,
     uXXXX(<<Ch0, Ch0, Che, Ch9>>), uXXXX(<<Ch1, Che, Ch0, Ch1>>),
     uXXXX(<<ChD, Ch9, Ch0, Ch1>>), uXXXX(<<ChD, Chd, Ch1, Che>>)}

\* the hex digit of value d, in upper or lower case
HexDigit(d, upper) ==
    IF d < 10 THEN Ch0 + d
    ELSE (IF upper THEN ChA ELSE Cha) + (d - 10)

\* the four hex digits of the code unit v; cs tells the case of each digit
Hex4(v, cs) ==
    <<HexDigit(v \div 4096, cs[1]), HexDigit((v \div 256) % 16, cs[2]),
      HexDigit((v \div 16) % 16, cs[3]), HexDigit(v % 16, cs[4])>>

Cases ==
    {<<TRUE, TRUE, TRUE, TRUE>>, <<FALSE, FALSE, FALSE, FALSE>>,
     <<TRUE, FALSE, TRUE, FALSE>>, <<FALSE, TRUE, FALSE, FALSE>>}

\* the code units of SpecSurrogate: those around the ends of the surrogate
\* ranges (D800, DC00, E000) and those of the test suite and the examples
\* (D83D DE39, D834 DD1E, DADA, DFAA, D888, 1234)
Units ==
    UNION {(b - MaxEdge) .. (b + MaxEdge) : b \in {55296, 56320, 57344}}
    \cup {55357, 56889, 55348, 56606, 56026, 57258, 55432, 4660}

\* what follows the first escape in a string of SpecSurrogate: nothing, a
\* letter, the escape \n, or a second \u escape
UnitTails ==
    {<<>>, <<Cha>>, <<BACKSLASH, Chn>>}
    \cup {uXXXX(Hex4(y, cy)) : y \in Units, cy \in Cases}

\* the configurations passed to mxjson_init
ResizeFns == {"NULL", "mxjson_resize", "mxjson_test_resize", "custom_resize_fn"}

Configs ==
    {mxjson_init(n, FALSE, NoArray, fn) : n \in 0 .. MaxInitCount, fn \in ResizeFns}
    \cup {mxjson_init(n, TRUE, NewArray(n, fill), fn) :
            n \in 0 .. MaxInitCount, fill \in {ZeroToken, JunkToken},
            fn \in ResizeFns}

(***************************************************************************)
(* The state machine                                                       *)
(*   p       the parser context                                            *)
(*   s       the cursor of mxjson_parse_json (its local s)                 *)
(*   pc      "init" after mxjson_init, "parse_json" inside the loop of     *)
(*           mxjson_parse_json, "returned" after mxjson_parse returned,    *)
(*           "freed" after mxjson_free                                     *)
(*   ret     the value the last mxjson_parse returned                      *)
(*   parses  the number of mxjson_parse calls made on the context          *)
(*   fresh   the context as mxjson_init left it                            *)
(*   refused whether the last mxjson_parse ended because mxjson_token      *)
(*           returned false                                                *)
(*   buffer  the bytes written to the caller's mxbuf                       *)
(*   result  the last call of mxjson_token_string or mxjson_token_name:    *)
(*           the function, the token index, the string returned, *valid,   *)
(*           the start s of buffer->available at the call, and the number  *)
(*           n of calls made                                               *)
(***************************************************************************)
VARIABLES p, s, pc, ret, parses, fresh, refused, buffer, result

vars == <<p, s, pc, ret, parses, fresh, refused, buffer, result>>

NoResult ==
    [fn |-> "none", idx |-> 0, str |-> NullStr, valid |-> TRUE, s |-> 0,
     n |-> 0]

InitWith(C) ==
    /\ p \in C
    /\ fresh = p
    /\ s = 0
    /\ pc = "init"
    /\ ret = FALSE
    /\ parses = 0
    /\ refused = FALSE
    /\ buffer = <<>>
    /\ result = NoResult

\* mxjson_parse may be called on a context that is not inside a parse
CanParse(limit) ==
    /\ pc \in {"init", "returned", "freed"}
    /\ parses < limit

\* a call of mxjson_parse: the prologue and the root token
Parse(json) ==
    /\ Let(ParseStart(p, json), LAMBDA t :
           /\ p' = t.p
           /\ s' = t.p.unparsed
           /\ pc' = IF t.ok THEN "parse_json" ELSE "returned"
           /\ ret' = FALSE
           /\ refused' = ~t.ok)
    /\ parses' = parses + 1
    /\ UNCHANGED <<fresh, buffer, result>>

\* mxjson_parse with a text made of at most n atoms of A
ParseAtoms(A, n, limit) ==
    /\ CanParse(limit)
    /\ \E k \in 0 .. n : \E w \in [1 .. k -> A] : Parse(Flatten(w))

\* mxjson_parse with a short text between runs of padding
ParsePadded(limit) ==
    /\ CanParse(limit)
    /\ \E a \in SeqsUpTo(Pads, MaxPad), w \in SeqsUpTo(Atoms, MaxCore),
          b \in Pads \cup {<<>>} :
            Parse(Flatten(a) \o Flatten(w) \o b)

\* one iteration of the loop of mxjson_parse_json and, when the loop ends,
\* the rest of the function and the return of mxjson_parse
ParseJson ==
    /\ pc = "parse_json"
    /\ Let(ParseJsonIteration(p, s), LAMBDA r :
       Let(ParseJsonEnd(r.p, r.s, r.ok), LAMBDA e :
           IF r.ok /\ r.p.current_parent # MXJSON_IDX_NONE
           THEN /\ p' = r.p
                /\ s' = r.s
                /\ UNCHANGED <<pc, ret, refused>>
           ELSE /\ p' = e.p
                /\ s' = e.p.unparsed
                /\ pc' = "returned"
                /\ ret' = e.ok
                /\ refused' = r.refused))
    /\ UNCHANGED <<parses, fresh, buffer, result>>

\* mxjson_parse with a string of at most MaxStringAtoms atoms, as the text
\* or as the name of the member of an object
ParseString(limit) ==
    /\ CanParse(limit)
    /\ \E k \in 0 .. MaxStringAtoms : \E w \in [1 .. k -> StringAtoms] :
          \/ Parse(<<DQUOTE>> \o Flatten(w) \o <<DQUOTE>>)
          \/ Parse(<<LBRACE, DQUOTE>> \o Flatten(w)
                      \o <<DQUOTE, COLON, Ch1, RBRACE>>)

\* mxjson_parse with a string that starts with a \u escape, as the text or
\* as the name of the member of an object
ParseUnits(limit) ==
    /\ CanParse(limit)
    /\ \E x \in Units, cx \in Cases, tail \in UnitTails :
          \/ Parse(<<DQUOTE>> \o uXXXX(Hex4(x, cx)) \o tail \o <<DQUOTE>>)
          \/ Parse(<<LBRACE, DQUOTE>> \o uXXXX(Hex4(x, cx)) \o tail
                      \o <<DQUOTE, COLON, Ch1, RBRACE>>)

\* a call of mxjson_token_string on a token of the last parse
TokenString ==
    /\ pc = "returned"
    /\ result.n < MaxCalls
    /\ \E idx \in 1 .. p.idx :
          /\ idx < p.count
          /\ Let(mxjson_token_string(p, idx, buffer), LAMBDA r :
                 /\ buffer' = r.buffer
                 /\ result' = [fn |-> "mxjson_token_string", idx |-> idx,
                               str |-> r.str, valid |-> r.valid,
                               s |-> Len(buffer), n |-> result.n + 1])
    /\ UNCHANGED <<p, s, pc, ret, parses, fresh, refused>>

\* a call of mxjson_token_name on a token of the last parse
TokenName ==
    /\ pc = "returned"
    /\ result.n < MaxCalls
    /\ \E idx \in 1 .. p.idx :
          /\ idx < p.count
          /\ Let(mxjson_token_name(p, idx, buffer), LAMBDA r :
                 /\ buffer' = r.buffer
                 /\ result' = [fn |-> "mxjson_token_name", idx |-> idx,
                               str |-> r.str, valid |-> r.valid,
                               s |-> Len(buffer), n |-> result.n + 1])
    /\ UNCHANGED <<p, s, pc, ret, parses, fresh, refused>>

\* a call of mxjson_free
Free ==
    /\ pc = "returned"
    /\ p' = mxjson_free(p)
    /\ pc' = "freed"
    /\ UNCHANGED <<s, ret, parses, fresh, refused, buffer, result>>

Init == InitWith(Configs)

Next ==
    \/ CanParse(MaxParses) /\ \E json \in StoreInputs : Parse(json)
    \/ ParseJson
    \/ Free

Spec == Init /\ [][Next]_vars

\* one parse of each text of SpecGrammar with a store that never refuses
InitGrammar == InitWith({mxjson_init(0, FALSE, NoArray, "mxjson_resize")})

NextGrammar ==
    \/ ParseAtoms(Atoms, MaxAtoms, 1)
    \/ ParsePadded(1)
    \/ ParseJson

SpecGrammar == InitGrammar /\ [][NextGrammar]_vars

\* one parse of each text of SpecTree with a store that never refuses
NextTree ==
    \/ ParseAtoms(NestAtoms, MaxNest, 1)
    \/ ParseAtoms(MemberAtoms, MaxMembers, 1)
    \/ ParseJson

SpecTree == InitGrammar /\ [][NextTree]_vars

\* one parse of a string, as a value or as a member name, and calls of
\* mxjson_token_string and mxjson_token_name with one buffer
NextString ==
    \/ ParseString(1)
    \/ ParseJson
    \/ TokenString
    \/ TokenName

SpecString == InitGrammar /\ [][NextString]_vars

\* SpecString with the strings of ParseUnits as well
NextSurrogate ==
    \/ ParseUnits(1)
    \/ ParseString(1)
    \/ ParseJson
    \/ TokenString
    \/ TokenName

SpecSurrogate == InitGrammar /\ [][NextSurrogate]_vars

(***************************************************************************)
(* RFC 8259, read as a grammar over bytes.  w is a text and i the (1-based) *)
(* index of its next byte; a production yields [ok, i, n]: whether it       *)
(* matched, the index after the match and the number of values matched.     *)
(***************************************************************************)
RfcFail == [ok |-> FALSE, i |-> 0, n |-> 0]

\* ws = *( %x20 / %x09 / %x0A / %x0D )
RECURSIVE RfcWs(_, _)
RfcWs(w, i) ==
    IF i <= Len(w) /\ w[i] \in {32, 9, 10, 13} THEN RfcWs(w, i + 1) ELSE i

RfcAt(w, i, b) == i <= Len(w) /\ w[i] = b

RECURSIVE RfcDigits(_, _)
RfcDigits(w, i) ==
    IF i <= Len(w) /\ w[i] \in 48 .. 57 THEN RfcDigits(w, i + 1) ELSE i

\* number = [ minus ] int [ frac ] [ exp ]
RfcNumber(w, i) ==
    Let(IF RfcAt(w, i, 45) THEN i + 1 ELSE i, LAMBDA a :
        \* int = zero / ( digit1-9 *DIGIT )
    Let(IF RfcAt(w, a, 48) THEN a + 1
             ELSE IF a <= Len(w) /\ w[a] \in 49 .. 57 THEN RfcDigits(w, a + 1)
             ELSE 0, LAMBDA b :
        \* frac = decimal-point 1*DIGIT
    Let(RfcAt(w, b, 46) /\ RfcDigits(w, b + 1) > b + 1, LAMBDA hasFrac :
    Let(IF hasFrac THEN RfcDigits(w, b + 1) ELSE b, LAMBDA c :
        \* exp = e [ minus / plus ] 1*DIGIT
    Let(IF c + 1 <= Len(w) /\ w[c + 1] \in {43, 45} THEN c + 2 ELSE c + 1, LAMBDA d :
    Let(c <= Len(w) /\ w[c] \in {101, 69} /\ RfcDigits(w, d) > d, LAMBDA hasExp :
    Let(IF hasExp THEN RfcDigits(w, d) ELSE c, LAMBDA e :
        IF b = 0 THEN RfcFail ELSE [ok |-> TRUE, i |-> e, n |-> 1])))))))

RfcHex == (48 .. 57) \cup (65 .. 70) \cup (97 .. 102)

\* *char quotation-mark, with char = unescaped / escape ( ... )
RECURSIVE RfcChars(_, _)
RfcChars(w, i) ==
    IF i > Len(w) THEN RfcFail
    ELSE IF w[i] = 34 THEN [ok |-> TRUE, i |-> i + 1, n |-> 1]
    ELSE IF w[i] = 92
    THEN IF i + 1 <= Len(w) /\ w[i + 1] \in {34, 92, 47, 98, 102, 110, 114, 116}
         THEN RfcChars(w, i + 2)
         ELSE IF /\ i + 5 <= Len(w)
                 /\ w[i + 1] = 117
                 /\ \A k \in 2 .. 5 : w[i + k] \in RfcHex
         THEN RfcChars(w, i + 6)
         ELSE RfcFail
    ELSE IF w[i] < 32 THEN RfcFail
    ELSE RfcChars(w, i + 1)

\* string = quotation-mark *char quotation-mark
RfcString(w, i) == IF RfcAt(w, i, 34) THEN RfcChars(w, i + 1) ELSE RfcFail

RfcLiteral(w, i, text) ==
    IF i + Len(text) - 1 <= Len(w) /\ SubSeq(w, i, i + Len(text) - 1) = text
    THEN [ok |-> TRUE, i |-> i + Len(text), n |-> 1]
    ELSE RfcFail

\* value = false / null / true / object / array / number / string
\* array = begin-array [ value *( value-separator value ) ] end-array
\* object = begin-object [ member *( value-separator member ) ] end-object
\* member = string name-separator value
RECURSIVE RfcValue(_, _), RfcElements(_, _, _)
RfcValue(w, i) ==
    IF i > Len(w) THEN RfcFail
    ELSE CASE w[i] \in {91, 123} ->
                Let(IF w[i] = 91 THEN 93 ELSE 125, LAMBDA close :
                Let(RfcWs(w, i + 1), LAMBDA j :
                Let(RfcElements(w, j, close), LAMBDA m :
                    IF RfcAt(w, j, close) THEN [ok |-> TRUE, i |-> j + 1, n |-> 1]
                    ELSE IF m.ok THEN [m EXCEPT !.n = m.n + 1]
                    ELSE RfcFail)))
           [] w[i] = 34 -> RfcString(w, i)
           [] w[i] = 116 -> RfcLiteral(w, i, <<116, 114, 117, 101>>)
           [] w[i] = 102 -> RfcLiteral(w, i, <<102, 97, 108, 115, 101>>)
           [] w[i] = 110 -> RfcLiteral(w, i, <<110, 117, 108, 108>>)
           [] OTHER -> RfcNumber(w, i)

\* the members of an array (close = 93) or object (close = 125) from the
\* first one to the closing bracket
RfcElements(w, i, close) ==
    Let(RfcString(w, i), LAMBDA name :
    Let(RfcWs(w, name.i), LAMBDA colon :
    Let(IF close = 93 THEN i
                 ELSE IF name.ok /\ RfcAt(w, colon, 58) THEN RfcWs(w, colon + 1)
                 ELSE 0, LAMBDA start :
    Let(IF start = 0 THEN RfcFail ELSE RfcValue(w, start), LAMBDA v :
    Let(RfcWs(w, v.i), LAMBDA j :
    Let(RfcElements(w, RfcWs(w, j + 1), close), LAMBDA rest :
        IF ~v.ok THEN RfcFail
        ELSE IF RfcAt(w, j, close) THEN [ok |-> TRUE, i |-> j + 1, n |-> v.n]
        ELSE IF RfcAt(w, j, 44) /\ rest.ok THEN [rest EXCEPT !.n = rest.n + v.n]
        ELSE RfcFail))))))

\* JSON-text = ws value ws
RfcText(w) ==
    Let(RfcValue(w, RfcWs(w, 1)), LAMBDA v :
        IF v.ok /\ RfcWs(w, v.i) > Len(w) THEN v ELSE RfcFail)

\* the text without one leading byte order mark
StripBOM(w) ==
    IF Len(w) >= 3 /\ SubSeq(w, 1, 3) = <<239, 187, 191>>
    THEN SubSeq(w, 4, Len(w))
    ELSE w

\* a call of mxjson_parse has returned
Returned == pc = "returned"

(***************************************************************************)
(* C1: with a store that never refuses an allocation, mxjson_parse returns  *)
(* true exactly when the input, less one leading byte order mark, is one    *)
(* RFC 8259 value between optional white space.                             *)
(***************************************************************************)
C1_ParseAcceptsExactlyJson ==
    Returned => (ret <=> RfcText(StripBOM(p.json)).ok)

\* an accepted input that starts with the byte order mark
C1_Witness ==
    /\ Returned
    /\ ret
    /\ Len(p.json) > 3
    /\ SubSeq(p.json, 1, 3) = BOM
    /\ p.tokens[1].value_type = MXJSON_ARRAY

(***************************************************************************)
(* The decoding of a string lexeme read from the JSON grammar, byte by      *)
(* byte: an escape is replaced by the bytes it denotes and every other byte *)
(* is copied.  w is a lexeme the lexer accepted.                            *)
(***************************************************************************)
RefHex(c) ==
    IF c \in Ch0 .. Ch9 THEN c - Ch0
    ELSE IF c \in ChA .. ChF THEN c - ChA + 10
    ELSE c - Cha + 10

\* the code unit of the escape \uXXXX at the head of w
RefUnit(w) ==
    4096 * RefHex(w[3]) + 256 * RefHex(w[4]) + 16 * RefHex(w[5]) + RefHex(w[6])

\* whether w holds a \u escape in the range D800..DFFF
RECURSIVE RefHasSurrogate(_)
RefHasSurrogate(w) ==
    IF Len(w) < 2 THEN FALSE
    ELSE IF w[1] # BACKSLASH THEN RefHasSurrogate(Tail(w))
    ELSE IF w[2] # Chu THEN RefHasSurrogate(SubSeq(w, 3, Len(w)))
    ELSE \/ RefUnit(w) \in 55296 .. 57343
         \/ RefHasSurrogate(SubSeq(w, 7, Len(w)))

\* the byte a two-byte escape denotes
RefEscape(c) ==
    CASE c = Chb -> 8
      [] c = Chf -> 12
      [] c = Chn -> 10
      [] c = Chr -> 13
      [] c = Cht -> 9
      [] OTHER -> c

\* the decoding of a lexeme without surrogate escapes
RECURSIVE RefDecode(_)
RefDecode(w) ==
    IF w = <<>> THEN <<>>
    ELSE IF w[1] # BACKSLASH THEN <<w[1]>> \o RefDecode(Tail(w))
    ELSE IF w[2] # Chu
    THEN <<RefEscape(w[2])>> \o RefDecode(SubSeq(w, 3, Len(w)))
    ELSE Utf8(RefUnit(w)) \o RefDecode(SubSeq(w, 7, Len(w)))

\* the token of the last call of mxjson_token_string or mxjson_token_name,
\* the lexeme the call was about and its escaped flag, and the bytes the
\* returned string covers
ResultToken == p.tokens[result.idx]

ResultLexeme ==
    IF result.fn = "mxjson_token_name"
    THEN Bytes(p.json, [off |-> ResultToken.name,
                        len |-> ResultToken.name_size])
    ELSE Bytes(p.json, [off |-> str(ResultToken),
                        len |-> str_size(ResultToken)])

ResultEscaped ==
    IF result.fn = "mxjson_token_name" THEN ResultToken.name_esc
    ELSE ResultToken.value_type = MXJSON_STRING /\ ResultToken.value_esc

ResultBytes ==
    CASE result.str.mem = "json" -> Bytes(p.json, result.str)
      [] result.str.mem = "buffer" -> Bytes(buffer, result.str)
      [] OTHER -> <<>>

(***************************************************************************)
(* C2, as claimed: for a string or member name that the lexer accepted,     *)
(* whose escaped flag is set and that holds no \u escape in D800..DFFF,     *)
(* mxjson_token_string (mxjson_token_name) sets valid and returns a range   *)
(* of the caller's buffer holding the decoded lexeme, wherever the escapes  *)
(* are.                                                                     *)
(***************************************************************************)
C2_UnescapeDecodes ==
    /\ Returned
    /\ ret
    /\ result.fn # "none"
    /\ ResultEscaped
    /\ ~RefHasSurrogate(ResultLexeme)
    => /\ result.valid
       /\ result.str.mem = "buffer"
       /\ ResultBytes = RefDecode(ResultLexeme)

(***************************************************************************)
(* C3, as claimed: when mxjson_token_string or mxjson_token_name fails to   *)
(* unescape (valid = false), the string it returns is the range of the      *)
(* caller's buffer that this call filled, not the lexeme in the input.      *)
(***************************************************************************)
C3_FailureReturnsBufferRange ==
    Returned /\ result.fn # "none" /\ ~result.valid
    => result.str = InBuffer(result.s, Len(buffer))

(***************************************************************************)
(* C4, as claimed: whenever mxjson_parse returns false because a token      *)
(* allocation was refused, idx = count on return.                           *)
(***************************************************************************)
C4_RefusedIdxEqualsCount ==
    Returned /\ refused => p.idx = p.count

(***************************************************************************)
(* C4, amended: whenever mxjson_parse returns false because a token         *)
(* allocation was refused, idx >= count on return: idx = count when the     *)
(* context holds a token array, and idx = 1 with count = 0 when it holds     *)
(* none (the first allocation of the context was refused).                  *)
(***************************************************************************)
C4_RefusedIdxAtLeastCount ==
    Returned /\ refused =>
        /\ ~ret
        /\ p.idx >= p.count
        /\ p.where # "NULL" => p.idx = p.count /\ p.count > 0
        /\ p.where = "NULL" => p.idx = 1 /\ p.count = 0

\* a caller array of one record and no callback: the root token is refused
C4_Witness ==
    /\ Returned
    /\ refused
    /\ p.init_tokens
    /\ p.init_count = 1
    /\ p.resize_fn = "NULL"
    /\ p.idx = 1
    /\ p.count = 0

(***************************************************************************)
(* C5, as claimed: after any mxjson_parse, idx >= count implies the call    *)
(* returned false, a non-empty unparsed remainder implies it returned      *)
(* false, and otherwise it returned true (the three assertions of the main  *)
(* of mxjson-tree).                                                         *)
(***************************************************************************)
C5_StatusClassification ==
    Returned =>
        IF p.idx >= p.count THEN ~ret
        ELSE IF ~mxstr_empty(p.json, p.unparsed) THEN ~ret
        ELSE ret

(***************************************************************************)
(* C6, as claimed: with a caller array of N records and no resize callback, *)
(* every well-formed input with at most N values parses successfully.       *)
(***************************************************************************)
C6_ArrayOfNHoldsNValues ==
    /\ Returned
    /\ fresh.init_tokens
    /\ fresh.resize_fn = "NULL"
    /\ RfcText(StripBOM(p.json)).ok
    /\ RfcText(StripBOM(p.json)).n <= fresh.init_count
    => ret

(***************************************************************************)
(* C7: a parse on a context that has parsed before returns the same value   *)
(* and leaves the same idx, the same unparsed remainder and the same token  *)
(* records at 1 .. idx as the parse of the same input on a context fresh    *)
(* from mxjson_init with the same configuration.                            *)
(***************************************************************************)
C7_ReuseSafety ==
    Returned /\ parses >= 2 =>
        Let(mxjson_parse(fresh, p.json), LAMBDA f :
            /\ ret = f.ok
            /\ p.idx = f.p.idx
            /\ p.unparsed = f.p.unparsed
            /\ \A i \in 1 .. p.idx :
                 /\ i < p.count <=> i < f.p.count
                 /\ i < p.count => p.tokens[i] = f.p.tokens[i])

\* the second parse succeeds in a store that the first parse grew: a fresh
\* context would hold 2 records after this input
C7_Witness ==
    /\ Returned
    /\ parses = 2
    /\ ret
    /\ ~fresh.init_tokens
    /\ fresh.init_count = 0
    /\ fresh.resize_fn = "custom_resize_fn"
    /\ p.idx = 1
    /\ p.count = 4

(***************************************************************************)
(* C8: after a successful parse idx is the number of values in the input.   *)
(***************************************************************************)
C8_IdxIsValueCount ==
    Returned /\ ret => p.idx = RfcText(StripBOM(p.json)).n

\* an accepted object: the member's name and value share token 2
C8_Witness ==
    /\ Returned
    /\ ret
    /\ p.idx = 2
    /\ p.tokens[1].value_type = MXJSON_OBJECT
    /\ p.tokens[2].name_size = 1
    /\ p.tokens[2].value_type = MXJSON_NUMBER

(***************************************************************************)
(* The token tree                                                          *)
(***************************************************************************)
IsContainer(t) == t.value_type \in {MXJSON_OBJECT, MXJSON_ARRAY}

\* whether token c is reached from token i by following parent links
RECURSIVE IsDescendant(_, _, _)
IsDescendant(q, i, c) ==
    /\ i # 0
    /\ q.tokens[i].parent < i
    /\ \/ q.tokens[i].parent = c
       \/ IsDescendant(q, q.tokens[i].parent, c)

\* the number of parent links from token i to the sentinel
RECURSIVE Depth(_, _)
Depth(q, i) ==
    IF i = 0 \/ q.tokens[i].parent >= i THEN 0
    ELSE 1 + Depth(q, q.tokens[i].parent)

\* token_depth of mxjson-tree: the number of object and array values token
\* idx is inside, counted by following parent to the sentinel
RECURSIVE token_depth(_, _)
token_depth(q, idx) ==
    IF q.tokens[idx].parent # MXJSON_IDX_NONE
    THEN 1 + token_depth(q, q.tokens[idx].parent)
    ELSE 0

\* whether the parent links from token i lead to the sentinel through
\* records of the array that lie below i and are objects or arrays
RECURSIVE ChainToSentinel(_, _)
ChainToSentinel(q, i) ==
    Let(q.tokens[i].parent, LAMBDA parent :
        \/ parent = MXJSON_IDX_NONE
        \/ /\ parent < i
           /\ parent \in DOMAIN q.tokens
           /\ IsContainer(q.tokens[parent])
           /\ ChainToSentinel(q, parent))

\* an increasing sequence of indices
Increasing(v) == \A k \in 1 .. Len(v) - 1 : v[k] < v[k + 1]

Range(v) == {v[k] : k \in 1 .. Len(v)}

(***************************************************************************)
(* C9: after a successful parse the loop over the children of any token c   *)
(* ends, visits children-many tokens when c is an object or array and none  *)
(* otherwise, visits only tokens whose parent is c, and visits them in      *)
(* input order.                                                             *)
(***************************************************************************)
C9_WalkVisitsChildren ==
    Returned /\ ret =>
        \A c \in 1 .. p.idx :
            Let(WalkChildren(p, c), LAMBDA w :
                /\ w.done
                /\ Len(w.visited) = IF IsContainer(p.tokens[c])
                                    THEN p.tokens[c].children ELSE 0
                /\ \A k \in 1 .. Len(w.visited) :
                       p.tokens[w.visited[k]].parent = c
                /\ Increasing(w.visited)
                /\ IsContainer(p.tokens[c]) =>
                       Range(w.visited) = {i \in 1 .. p.idx : p.tokens[i].parent = c})

\* an array with two members, the first of them an array with a member
C9_Witness ==
    /\ Returned
    /\ ret
    /\ p.idx = 4
    /\ WalkChildren(p, 1).visited = <<2, 4>>
    /\ WalkChildren(p, 2).visited = <<3>>

(***************************************************************************)
(* C10: after a successful parse, for every object or array c: next is      *)
(* above c's index, the tokens strictly between c and next are exactly c's  *)
(* descendants, next is c + 1 when c has no children, token next is no      *)
(* descendant of c, and a container that precedes another of the same depth *)
(* has its next at or before the other.                                     *)
(***************************************************************************)
C10_NextSkipsSubtree ==
    Returned /\ ret =>
        \A c \in 1 .. p.idx :
            IsContainer(p.tokens[c]) =>
                Let(p.tokens[c].next, LAMBDA next :
                    /\ next > c
                    /\ {i \in 1 .. p.idx : c < i /\ i < next}
                         = {i \in 1 .. p.idx : IsDescendant(p, i, c)}
                    /\ p.tokens[c].children = 0 => next = c + 1
                    /\ next <= p.idx => ~IsDescendant(p, next, c)
                    /\ \A c2 \in c + 1 .. p.idx :
                           IsContainer(p.tokens[c2]) /\ Depth(p, c2) = Depth(p, c)
                               => next <= c2)

\* two arrays of the same depth, the first with a member, inside an array
C10_Witness ==
    /\ Returned
    /\ ret
    /\ p.idx = 4
    /\ p.tokens[2].value_type = MXJSON_ARRAY
    /\ p.tokens[2].children = 1
    /\ p.tokens[4].value_type = MXJSON_ARRAY
    /\ p.tokens[4].parent = 1
    /\ p.tokens[2].next = 4

(***************************************************************************)
(* C11, as claimed: after a successful parse every immediate child of an    *)
(* OBJECT has a non-zero name length, and every other token (the children  *)
(* of an ARRAY and the root) has name length 0.                             *)
(***************************************************************************)
C11_ObjectChildrenNamed ==
    Returned /\ ret =>
        \A i \in 1 .. p.idx :
            IF p.tokens[i].parent # 0
               /\ p.tokens[p.tokens[i].parent].value_type = MXJSON_OBJECT
            THEN p.tokens[i].name_size # 0
            ELSE p.tokens[i].name_size = 0

(***************************************************************************)
(* C11, amended: after a successful parse every immediate child of an       *)
(* OBJECT has a non-zero name offset, the offset of the first byte after    *)
(* the opening quote of its key, and a name length that is the number of    *)
(* bytes between the quotes of the key (0 for the key ""); every other      *)
(* token (the children of an ARRAY and the root) has name offset 0, name    *)
(* length 0 and a clear name_esc flag.                                      *)
(***************************************************************************)
C11_ObjectChildrenHaveNameOffset ==
    Returned /\ ret =>
        \A i \in 1 .. p.idx :
            Let(p.tokens[i], LAMBDA t :
                IF t.parent # 0 /\ p.tokens[t.parent].value_type = MXJSON_OBJECT
                THEN /\ t.name # 0
                     /\ p.json[t.name] = DQUOTE
                     /\ p.json[t.name + t.name_size + 1] = DQUOTE
                     /\ \A k \in 1 .. t.name_size :
                            p.json[t.name + k] # DQUOTE
                ELSE t.name = 0 /\ t.name_size = 0 /\ ~t.name_esc)

\* the object {"":[]}: its member has the empty key and is an array
C11_Witness ==
    /\ Returned
    /\ ret
    /\ p.idx = 2
    /\ p.tokens[1].value_type = MXJSON_OBJECT
    /\ p.tokens[2].value_type = MXJSON_ARRAY
    /\ p.tokens[2].name = 2
    /\ p.tokens[2].name_size = 0

(***************************************************************************)
(* C12, as claimed: whenever the context holds a token array, every field   *)
(* of the sentinel tokens[0], children included, is 0.                      *)
(***************************************************************************)
C12_SentinelAllZero ==
    p.where # "NULL" => p.tokens[0] = ZeroToken

\* the last mxjson_parse allocated the root token
RootAllocated == Returned /\ p.idx >= 1 /\ p.count > 1

EndsAfterOpen ==
    /\ Returned
    /\ Len(p.json) > 0
    /\ p.json[Len(p.json)] \in {LBRACKET, LBRACE}
    /\ p.unparsed = Len(p.json)

(***************************************************************************)
(* C14, as claimed: mxjson_parse of the one-byte input [ returns false with *)
(* idx = 1 and an empty unparsed remainder; and whenever the input ends     *)
(* right after an opening bracket, idx is the index of the token of that    *)
(* bracket: no token was allocated for a member.                            *)
(***************************************************************************)
C14_NoTokenForUnseenMember ==
    /\ Returned /\ p.json = <<LBRACKET>> =>
          ~ret /\ p.idx = 1 /\ mxstr_empty(p.json, p.unparsed)
    /\ EndsAfterOpen => ~ret /\ IsContainer(p.tokens[p.idx])

(***************************************************************************)
(* C14, amended: mxjson_parse of the one-byte input [ returns false with    *)
(* idx = 2 and an empty unparsed remainder; and whenever the input ends     *)
(* right after an opening bracket or brace, the parse returns false and     *)
(* idx is one above the index of the token of that bracket: a token was     *)
(* allocated for its first member (type MXJSON_NONE, no name) and counted   *)
(* in children.                                                             *)
(***************************************************************************)
C14_TokenForUnseenMember ==
    /\ Returned /\ p.json = <<LBRACKET>> =>
          ~ret /\ p.idx = 2 /\ mxstr_empty(p.json, p.unparsed)
    /\ EndsAfterOpen =>
          /\ ~ret
          /\ p.idx >= 2
          /\ p.tokens[p.idx - 1].value_type =
                IF p.json[Len(p.json)] = LBRACKET THEN MXJSON_ARRAY
                ELSE MXJSON_OBJECT
          /\ p.tokens[p.idx - 1].children = 1
          /\ p.tokens[p.idx] = [ZeroToken EXCEPT !.parent = p.idx - 1]

\* the input [ alone
C14_Witness ==
    /\ EndsAfterOpen
    /\ p.json = <<LBRACKET>>
    /\ p.idx = 2
    /\ p.tokens[1].value_type = MXJSON_ARRAY
    /\ p.tokens[2].value_type = MXJSON_NONE

(***************************************************************************)
(* Surrogate escapes in a lexeme the lexer accepted, read from the JSON     *)
(* grammar: a \u escape in D800..DBFF directly followed by a \u escape in  *)
(* DC00..DFFF is a pair; any other \u escape in D800..DFFF is lone.         *)
(***************************************************************************)
IsHigh(v) == v \in 55296 .. 56319

IsLow(v) == v \in 56320 .. 57343

\* whether w starts with a \u escape
StartsWithUnit(w) == Len(w) >= 6 /\ w[1] = BACKSLASH /\ w[2] = Chu

\* whether w starts with a surrogate pair
StartsWithPair(w) ==
    /\ StartsWithUnit(w)
    /\ IsHigh(RefUnit(w))
    /\ StartsWithUnit(SubSeq(w, 7, Len(w)))
    /\ IsLow(RefUnit(SubSeq(w, 7, Len(w))))

\* whether w holds a \u escape in D800..DBFF that is not the first half of
\* a pair
RECURSIVE RefHasLoneHigh(_)
RefHasLoneHigh(w) ==
    IF Len(w) < 2 THEN FALSE
    ELSE IF w[1] # BACKSLASH THEN RefHasLoneHigh(Tail(w))
    ELSE IF w[2] # Chu THEN RefHasLoneHigh(SubSeq(w, 3, Len(w)))
    ELSE IF StartsWithPair(w) THEN RefHasLoneHigh(SubSeq(w, 13, Len(w)))
    ELSE IsHigh(RefUnit(w)) \/ RefHasLoneHigh(SubSeq(w, 7, Len(w)))

\* whether w holds a \u escape in DC00..DFFF that is not the second half of
\* a pair
RECURSIVE RefHasLoneLow(_)
RefHasLoneLow(w) ==
    IF Len(w) < 2 THEN FALSE
    ELSE IF w[1] # BACKSLASH THEN RefHasLoneLow(Tail(w))
    ELSE IF w[2] # Chu THEN RefHasLoneLow(SubSeq(w, 3, Len(w)))
    ELSE IF StartsWithPair(w) THEN RefHasLoneLow(SubSeq(w, 13, Len(w)))
    ELSE IsLow(RefUnit(w)) \/ RefHasLoneLow(SubSeq(w, 7, Len(w)))

\* the scalar value of the pair at the head of w
PairScalar(w) ==
    65536 + (RefUnit(w) - 55296) * 1024
          + (RefUnit(SubSeq(w, 7, Len(w))) - 56320)

\* the four bytes of UTF-8 for a scalar value of 10000..10FFFF
Utf8FourBytes(v) ==
    <<240 + (v \div 262144), 128 + ((v \div 4096) % 64),
      128 + ((v \div 64) % 64), 128 + (v % 64)>>

\* the last call of mxjson_token_string or mxjson_token_name was about an
\* accepted string or member name with an escape in it
UnescapedResult ==
    /\ Returned
    /\ ret
    /\ result.fn # "none"
    /\ ResultEscaped

(***************************************************************************)
(* C15: for a lexeme that is exactly a surrogate pair \uXXXX\uYYYY, with    *)
(* hex digits of either case, mxjson_token_string (mxjson_token_name) sets  *)
(* valid and returns four bytes of the buffer, the UTF-8 encoding of         *)
(* 10000 + ((X - D800) << 10) + (Y - DC00), which lies in 10000..10FFFF;     *)
(* F0 9F 98 B9 for D83D DE39.                                               *)
(***************************************************************************)
C15_SurrogatePairDecodes ==
    UnescapedResult /\ Len(ResultLexeme) = 12 /\ StartsWithPair(ResultLexeme)
    => /\ result.valid
       /\ result.str.mem = "buffer"
       /\ PairScalar(ResultLexeme) \in 65536 .. 1114111
       /\ ResultBytes = Utf8FourBytes(PairScalar(ResultLexeme))
       /\ RefUnit(ResultLexeme) = 55357
            /\ RefUnit(SubSeq(ResultLexeme, 7, 12)) = 56889
            => ResultBytes = <<240, 159, 152, 185>>

\* the member name \ud83d\ude39 in lower case
C15_Witness ==
    /\ UnescapedResult
    /\ result.fn = "mxjson_token_name"
    /\ ResultLexeme = uXXXX(<<Chd, 56, 51, Chd>>) \o uXXXX(<<Chd, Che, 51, Ch9>>)
    /\ result.valid
    /\ ResultBytes = <<240, 159, 152, 185>>

(***************************************************************************)
(* C16: for an accepted string or member name that holds a \u escape in     *)
(* D800..DBFF not directly followed by a \u escape in DC00..DFFF (the       *)
(* lexeme ends, or a literal byte, another escape or a \u escape outside    *)
(* DC00..DFFF follows), mxjson_token_string (mxjson_token_name) clears      *)
(* valid.                                                                   *)
(***************************************************************************)
C16_LoneHighSurrogateInvalid ==
    UnescapedResult /\ RefHasLoneHigh(ResultLexeme) => ~result.valid

\* \uDBFF followed by \uE000, the first code unit above the low surrogates
C16_Witness ==
    /\ UnescapedResult
    /\ Len(ResultLexeme) = 12
    /\ RefUnit(ResultLexeme) = 56319
    /\ StartsWithUnit(SubSeq(ResultLexeme, 7, 12))
    /\ RefUnit(SubSeq(ResultLexeme, 7, 12)) = 57344
    /\ ~result.valid

C19_CallerArrayNeverFreed ==
    p.resize_fn = "mxjson_resize" =>
        /\ ~p.heap.freed_init
        /\ ~p.heap.freed_stale
        /\ p.heap.live = IF p.where = "heap" THEN 1 ELSE 0
        /\ p.init_tokens /\ p.init_count >= 2 /\ p.where = "heap" /\ parses = 1
             => \A i \in 1 .. p.init_count - 1 :
                  /\ p.tokens[i].parent = p.init_mem[i].parent
                  /\ p.tokens[i].value_type = p.init_mem[i].value_type

\* a caller array of two records overflowed in the last parse and
\* mxjson_free has been called: the array mxjson_resize allocated is
\* released, the caller's was not passed to free
C19_Witness ==
    /\ pc = "freed"
    /\ p.resize_fn = "mxjson_resize"
    /\ p.init_tokens
    /\ p.init_count = 2
    /\ p.idx = 2
    /\ p.heap = NoHeap
    /\ p.init_mem[1].value_type = MXJSON_ARRAY

(***************************************************************************)
(* The values of a JSON text in input order, found by scanning the text: a  *)
(* value starts at an opening bracket or brace, at the quote of a string    *)
(* that is not a member name, and at the first byte of a number or keyword. *)
(***************************************************************************)
\* the index after the string whose opening quote is before index j
RECURSIVE ScanString(_, _)
ScanString(w, j) ==
    IF j > Len(w) THEN j
    ELSE IF w[j] = DQUOTE THEN j + 1
    ELSE IF w[j] = BACKSLASH THEN ScanString(w, j + 2)
    ELSE ScanString(w, j + 1)

\* the index after the number or keyword that holds index j
RECURSIVE ScanScalar(_, _)
ScanScalar(w, j) ==
    IF j <= Len(w) /\ w[j] \in isdigit \cup {PLUS, MINUS, DOT, ChE} \cup (Cha .. 122)
    THEN ScanScalar(w, j + 1)
    ELSE j

\* the (1-based) indices at which the values of w start, from index i on
RECURSIVE ValueStarts(_, _)
ValueStarts(w, i) ==
    IF i > Len(w) THEN <<>>
    ELSE IF w[i] \in {LBRACKET, LBRACE} THEN <<i>> \o ValueStarts(w, i + 1)
    ELSE IF w[i] = DQUOTE
    THEN Let(ScanString(w, i + 1), LAMBDA j :
         Let(RfcWs(w, j), LAMBDA k :
             IF RfcAt(w, k, COLON) THEN ValueStarts(w, k + 1)
             ELSE <<i>> \o ValueStarts(w, j)))
    ELSE IF w[i] \in isdigit \cup {MINUS, Cht, Chf, Chn}
    THEN <<i>> \o ValueStarts(w, ScanScalar(w, i))
    ELSE ValueStarts(w, i + 1)

\* whether token t describes the value that starts at index pos of w
DescribesValueAt(t, w, pos) ==
    CASE w[pos] = LBRACKET -> t.value_type = MXJSON_ARRAY
      [] w[pos] = LBRACE -> t.value_type = MXJSON_OBJECT
      [] w[pos] = DQUOTE -> t.value_type = MXJSON_STRING /\ str(t) = pos
      [] w[pos] \in {Cht, Chf} -> t.value_type = MXJSON_BOOL
      [] w[pos] = Chn -> t.value_type = MXJSON_NULL
      [] OTHER -> t.value_type = MXJSON_NUMBER /\ str(t) = pos - 1

\* the tokens that token k is inside, and k itself
SelfAndAncestors(q, k) == {k} \cup {a \in 1 .. k - 1 : IsDescendant(q, k, a)}

(***************************************************************************)
(* C20: after a successful parse, tokens 1 .. idx are the values of the     *)
(* input in the order in which they start: token k describes the k-th       *)
(* value (its type, and its offset where the token records one; a member    *)
(* name lies between the start of the value before and its own value), and *)
(* token k + 1 is the first child of k or the next sibling of k or of a     *)
(* token k is inside.                                                       *)
(***************************************************************************)
C20_TokensInInputOrder ==
    Returned /\ ret =>
        Let(ValueStarts(p.json, 1), LAMBDA starts :
            /\ Len(starts) = p.idx
            /\ \A k \in 1 .. p.idx :
                  /\ DescribesValueAt(p.tokens[k], p.json, starts[k])
                  /\ p.tokens[k].name # 0 =>
                        /\ p.tokens[k].name < starts[k]
                        /\ k > 1 /\ p.tokens[k].name > starts[k - 1]
            /\ \A k \in 1 .. p.idx - 1 :
                  \/ /\ IsContainer(p.tokens[k])
                     /\ p.tokens[k + 1].parent = k
                     /\ mxjson_first(p, k) = k + 1
                  \/ \E a \in SelfAndAncestors(p, k) :
                        /\ p.tokens[k + 1].parent = p.tokens[a].parent
                        /\ mxjson_next(p, a) = k + 1)

\* [[1],1]: token 3 is the first child of 2, token 4 the next sibling of 2,
\* which token 3 is inside
C20_Witness ==
    /\ Returned
    /\ ret
    /\ p.idx = 4
    /\ ValueStarts(p.json, 1) = <<1, 2, 3, 6>>
    /\ p.tokens[3].parent = 2
    /\ p.tokens[4].parent = 1
    /\ p.tokens[4].value_type = MXJSON_NUMBER
    /\ str(p.tokens[4]) = 5

(***************************************************************************)
(* Texts for the lexical rules: numbers, strings, keywords and short texts *)
(* with a keyword, an object and a byte no JSON text holds.                *)
(***************************************************************************)
HASH == 35
US == 31

\* at most MaxLexLen bytes or atoms of a number, a keyword or a string in
\* SpecLex; at most MaxTextAtoms atoms of TextAtoms; at most MaxNumberLen
\* bytes of a number in SpecNumber; at most MaxQuoteAtoms atoms after the
\* opening quote in SpecQuote
MaxLexLen == 4

MaxTextAtoms == 5

MaxNumberLen == 5

MaxQuoteAtoms == 5

\* the text {"a":"b"}
ObjectAB ==
    <<LBRACE, DQUOTE, Cha, DQUOTE, COLON, DQUOTE, Chb, DQUOTE, RBRACE>>

TextAtoms ==
    {<<LBRACKET>>, <<RBRACKET>>, <<COMMA>>, <<SPACE>>, <<Ch1>>, LitTrue,
     ObjectAB, <<HASH>>}

\* the bytes of true and null, and the first four bytes of false
KeywordAtoms ==
    {<<Cht>>, <<Chr>>, <<Chu>>, <<Che>>, <<Chn>>, <<Chl>>,
     <<Chf, Cha, Chl, Chs>>}

NumberBytes == {<<MINUS>>, <<PLUS>>, <<DOT>>, <<Ch0>>, <<Ch1>>, <<Che>>, <<ChE>>}

\* a quote, a backslash, the u of \u, a hexadecimal digit (which is no escape
\* character), three of them, the last control byte and the first byte that
\* is none
QuoteAtoms ==
    {<<DQUOTE>>, <<BACKSLASH>>, <<Chu>>, <<Cha>>, <<Cha, Cha, Cha>>, <<US>>,
     <<SPACE>>}

\* mxjson_parse with a text that starts with a quote and goes on with at most
\* n atoms of QuoteAtoms, or with an object whose first member has these
\* atoms where its name belongs
ParseQuoted(n, limit) ==
    /\ CanParse(limit)
    /\ \E k \in 0 .. n : \E w \in [1 .. k -> QuoteAtoms] :
          \/ Parse(<<DQUOTE>> \o Flatten(w))
          \/ Parse(<<LBRACE>> \o Flatten(w) \o <<COLON, Ch1, RBRACE>>)

\* one parse of each text of SpecLex with a store that never refuses
NextLex ==
    \/ ParseAtoms(TextAtoms, MaxTextAtoms, 1)
    \/ ParseAtoms(KeywordAtoms, MaxLexLen, 1)
    \/ ParseAtoms(NumberBytes, MaxLexLen, 1)
    \/ ParseQuoted(MaxLexLen, 1)
    \/ ParseJson

SpecLex == InitGrammar /\ [][NextLex]_vars

\* one parse of each text made of the bytes of a number
NextNumber ==
    \/ ParseAtoms(NumberBytes, MaxNumberLen, 1)
    \/ ParseJson

SpecNumber == InitGrammar /\ [][NextNumber]_vars

\* one parse of each text made of the bytes of a string
NextQuote ==
    \/ ParseQuoted(MaxQuoteAtoms, 1)
    \/ ParseJson

SpecQuote == InitGrammar /\ [][NextQuote]_vars

(***************************************************************************)
(* The prefixes of the texts of RFC 8259.  A production yields [st, i]:    *)
(* "ok" and the index after the match; "end" when the text ends inside the *)
(* production (the text is the prefix of a longer match); "err" and the    *)
(* index of the first byte after which no continuation matches.            *)
(***************************************************************************)
PfxOk(i) == [st |-> "ok", i |-> i]

PfxEnd(w) == [st |-> "end", i |-> Len(w) + 1]

PfxErr(i) == [st |-> "err", i |-> i]

\* 1*DIGIT
PfxDigits(w, i) ==
    IF i > Len(w) THEN PfxEnd(w)
    ELSE IF w[i] \notin 48 .. 57 THEN PfxErr(i)
    ELSE PfxOk(RfcDigits(w, i + 1))

\* [ exp ]
PfxExp(w, c) ==
    IF c <= Len(w) /\ w[c] \in {101, 69}
    THEN PfxDigits(w, IF c + 1 <= Len(w) /\ w[c + 1] \in {43, 45}
                      THEN c + 2 ELSE c + 1)
    ELSE PfxOk(c)

\* [ frac ] [ exp ]
PfxFrac(w, b) ==
    IF RfcAt(w, b, 46)
    THEN Let(PfxDigits(w, b + 1), LAMBDA f :
             IF f.st = "ok" THEN PfxExp(w, f.i) ELSE f)
    ELSE PfxExp(w, b)

\* number = [ minus ] int [ frac ] [ exp ]
PfxNumber(w, i) ==
    Let(IF RfcAt(w, i, 45) THEN i + 1 ELSE i, LAMBDA a :
        IF a > Len(w) THEN PfxEnd(w)
        ELSE IF w[a] = 48 THEN PfxFrac(w, a + 1)
        ELSE IF w[a] \in 49 .. 57 THEN PfxFrac(w, RfcDigits(w, a + 1))
        ELSE PfxErr(a))

\* n times HEXDIG
RECURSIVE PfxHex(_, _, _)
PfxHex(w, i, n) ==
    IF n = 0 THEN PfxOk(i)
    ELSE IF i > Len(w) THEN PfxEnd(w)
    ELSE IF w[i] \notin RfcHex THEN PfxErr(i)
    ELSE PfxHex(w, i + 1, n - 1)

\* *char quotation-mark
RECURSIVE PfxChars(_, _)
PfxChars(w, i) ==
    IF i > Len(w) THEN PfxEnd(w)
    ELSE IF w[i] = 34 THEN PfxOk(i + 1)
    ELSE IF w[i] < 32 THEN PfxErr(i)
    ELSE IF w[i] # 92 THEN PfxChars(w, i + 1)
    ELSE IF i + 1 > Len(w) THEN PfxEnd(w)
    ELSE IF w[i + 1] \in {34, 92, 47, 98, 102, 110, 114, 116}
    THEN PfxChars(w, i + 2)
    ELSE IF w[i + 1] # 117 THEN PfxErr(i + 1)
    ELSE Let(PfxHex(w, i + 2, 4), LAMBDA h :
             IF h.st = "ok" THEN PfxChars(w, h.i) ELSE h)

\* string = quotation-mark *char quotation-mark
PfxString(w, i) ==
    IF i > Len(w) THEN PfxEnd(w)
    ELSE IF w[i] # 34 THEN PfxErr(i)
    ELSE PfxChars(w, i + 1)

\* false / null / true, from the k-th byte of the literal
RECURSIVE PfxLiteral(_, _, _, _)
PfxLiteral(w, i, text, k) ==
    IF k > Len(text) THEN PfxOk(i)
    ELSE IF i > Len(w) THEN PfxEnd(w)
    ELSE IF w[i] # text[k] THEN PfxErr(i)
    ELSE PfxLiteral(w, i + 1, text, k + 1)

\* value, and the members of an array or object from index i (first: none
\* has been read, so that the closing bracket may follow)
RECURSIVE PfxValue(_, _), PfxMembers(_, _, _, _), PfxMemberValue(_, _, _)
PfxValue(w, i) ==
    IF i > Len(w) THEN PfxEnd(w)
    ELSE CASE w[i] = 91 -> PfxMembers(w, RfcWs(w, i + 1), 93, TRUE)
           [] w[i] = 123 -> PfxMembers(w, RfcWs(w, i + 1), 125, TRUE)
           [] w[i] = 34 -> PfxString(w, i)
           [] w[i] = 116 -> PfxLiteral(w, i, <<116, 114, 117, 101>>, 1)
           [] w[i] = 102 -> PfxLiteral(w, i, <<102, 97, 108, 115, 101>>, 1)
           [] w[i] = 110 -> PfxLiteral(w, i, <<110, 117, 108, 108>>, 1)
           [] w[i] \in {45} \cup (48 .. 57) -> PfxNumber(w, i)
           [] OTHER -> PfxErr(i)

PfxMembers(w, i, close, first) ==
    IF i > Len(w) THEN PfxEnd(w)
    ELSE IF first /\ w[i] = close THEN PfxOk(i + 1)
    ELSE IF close = 93 THEN PfxMemberValue(w, i, close)
    ELSE Let(PfxString(w, i), LAMBDA n :
         Let(RfcWs(w, n.i), LAMBDA j :
             IF n.st # "ok" THEN n
             ELSE IF j > Len(w) THEN PfxEnd(w)
             ELSE IF w[j] # 58 THEN PfxErr(j)
             ELSE PfxMemberValue(w, RfcWs(w, j + 1), close)))

PfxMemberValue(w, i, close) ==
    Let(PfxValue(w, i), LAMBDA v :
    Let(RfcWs(w, v.i), LAMBDA j :
        IF v.st # "ok" THEN v
        ELSE IF j > Len(w) THEN PfxEnd(w)
        ELSE IF w[j] = close THEN PfxOk(j + 1)
        ELSE IF w[j] = 44 THEN PfxMembers(w, RfcWs(w, j + 1), close, FALSE)
        ELSE PfxErr(j)))

\* JSON-text = ws value ws
PfxText(w) ==
    Let(PfxValue(w, RfcWs(w, 1)), LAMBDA v :
    Let(RfcWs(w, v.i), LAMBDA j :
        IF v.st # "ok" THEN v
        ELSE IF j > Len(w) THEN PfxOk(j)
        ELSE PfxErr(j)))

\* the number of bytes of p.json that are the prefix of a JSON text: the
\* offset of the first byte at which it stops being one
ErrorSite ==
    Let(PfxText(StripBOM(p.json)), LAMBDA r :
        Len(p.json) - Len(StripBOM(p.json)) + r.i - 1)

\* mxjson_parse has rejected a text that is not the prefix of a JSON text
GrammarViolation ==
    Returned /\ ~ret /\ PfxText(StripBOM(p.json)).st = "err"

\* C21: when mxjson_parse rejects a text for a grammar violation, the
\* unparsed remainder begins at or before the first byte at which the text
\* stops being the prefix of a JSON text (the t of [1 true], the # of
\* {"a":"b"}#); and mxjson_parse accepts exactly the texts the prefix grammar
\* matches to their end.
C21_RemainderAtOrBeforeErrorSite ==
    /\ GrammarViolation => p.unparsed <= ErrorSite
    /\ Returned => (ret <=> PfxText(StripBOM(p.json)).st = "ok")
    /\ Returned /\ p.json = <<LBRACKET, Ch1, SPACE>> \o LitTrue \o <<RBRACKET>>
          => ~ret /\ p.unparsed = 3
    /\ Returned /\ p.json = ObjectAB \o <<HASH>>
          => ~ret /\ p.unparsed = 9

\* [1 true] has been rejected with the remainder true]
C21_Witness ==
    /\ GrammarViolation
    /\ p.json = <<LBRACKET, Ch1, SPACE>> \o LitTrue \o <<RBRACKET>>
    /\ p.unparsed = ErrorSite
    /\ p.idx = 2

\* the first token is the number at the start of the text: mxjson_parse_value
\* has called mxjson_parse_number
NumberParsed ==
    /\ Returned
    /\ p.json # <<>>
    /\ p.json[1] \in {MINUS} \cup isdigit

\* the longest prefix of the text that matches
\* [ - ] ( 0 | nonzero digit* ) [ . digit+ ] [ (e|E) [+|-] digit+ ]
NumberMatch == RfcNumber(p.json, 1)

NumberText == SubSeq(p.json, 1, NumberMatch.i - 1)

\* the match is followed by a '.' or an 'e' or 'E' that mxjson_parse_number
\* consumes: one that no digit follows (after an optional sign of the
\* exponent), as the match is the longest
NumberDangling ==
    /\ NumberMatch.i <= Len(p.json)
    /\ \A k \in 1 .. Len(NumberText) : NumberText[k] \notin {Che, ChE}
    /\ \/ p.json[NumberMatch.i] \in {Che, ChE}
       \/ /\ p.json[NumberMatch.i] = DOT
          /\ \A k \in 1 .. Len(NumberText) : NumberText[k] # DOT

NumberAccepted == NumberMatch.ok /\ ~NumberDangling

\* the lexeme of the number without its sign
NumberDigits ==
    IF NumberText # <<>> /\ NumberText[1] = MINUS THEN Tail(NumberText)
    ELSE NumberText

\* C22: mxjson_parse_number accepts exactly the longest prefix that matches
\* the number pattern, unless a '.', 'e' or 'E' without its digits follows;
\* on success the token's lexeme is the matched text with its sign and the
\* rest of the text is unparsed; a leading 0 of the lexeme is followed by no
\* digit; and a text that starts with '+', '.', 'e' or 'E' is rejected at
\* its first byte.
C22_NumberLongestMatch ==
    /\ NumberParsed /\ NumberAccepted =>
          /\ p.tokens[1].value_type = MXJSON_NUMBER
          /\ str(p.tokens[1]) = 0
          /\ str_size(p.tokens[1]) = Len(NumberText)
          /\ p.unparsed = Len(NumberText)
          /\ ret <=> NumberText = p.json
          /\ NumberDigits[1] = Ch0 =>
                Len(NumberDigits) = 1 \/ NumberDigits[2] \notin isdigit
    /\ NumberParsed /\ ~NumberAccepted =>
          /\ ~ret
          /\ str_size(p.tokens[1]) = 0
          /\ p.unparsed >= Len(NumberText)
    /\ Returned /\ p.json # <<>> /\ p.json[1] \in {PLUS, DOT, Che, ChE} =>
          ~ret /\ p.unparsed = 0

\* -0.1e+1 is out of reach of five bytes: 0.1e1 has been accepted whole, and
\* 01 has left its 1 unparsed
C22_Witness ==
    /\ NumberParsed
    /\ NumberAccepted
    /\ \/ p.json = <<Ch0, DOT, Ch1, Che, Ch1>> /\ ret
       \/ p.json = <<Ch0, Ch1>> /\ ~ret /\ p.unparsed = 1

\* mxjson_parse_string has been called at the 1-based index StringAt of the
\* text: for the string the text starts with, or for the name of the first
\* member of the object it starts with
StringAt ==
    IF p.json[1] = DQUOTE THEN 1 ELSE RfcWs(p.json, 2)

StringParsed ==
    /\ Returned
    /\ p.json # <<>>
    /\ p.json[1] \in {DQUOTE, LBRACE}
    /\ StringAt <= Len(p.json)

\* the string of RFC 8259 at StringAt: an opening quote, then bytes from 0x20
\* on and escapes (\ and one of " \ / b f n r t, or \u and four hexadecimal
\* digits) up to the first quote that is not escaped
StringMatch == RfcString(p.json, StringAt)

\* the bytes strictly between the two quotes
StringRange == [off |-> StringAt, len |-> StringMatch.i - StringAt - 2]

StringHasBackslash ==
    \E k \in 1 .. StringRange.len : p.json[StringRange.off + k] = BACKSLASH

\* the 1-based index of the first byte after the string and white space
AfterString == RfcWs(p.json, StringMatch.i)

\* C23: mxjson_parse_string succeeds exactly on the strings of RFC 8259; the
\* recorded range is then the bytes strictly between the two quotes and the
\* escaped flag says whether the range holds a backslash.  As the text: the
\* token is the STRING with that range.  As a member name: the token has the
\* range as its name once the colon follows, and the parse stops at the byte
\* after the string when none does.  When it fails nothing is recorded and
\* the parse fails.
C23_StringRecognised ==
    /\ StringParsed /\ StringMatch.ok /\ p.json[1] = DQUOTE =>
          /\ p.tokens[1].value_type = MXJSON_STRING
          /\ str(p.tokens[1]) = StringRange.off
          /\ str_size(p.tokens[1]) = StringRange.len
          /\ p.tokens[1].value_esc <=> StringHasBackslash
          /\ ret <=> AfterString > Len(p.json)
          /\ p.unparsed >= StringMatch.i - 1
    /\ StringParsed /\ StringMatch.ok /\ p.json[1] = LBRACE =>
          IF RfcAt(p.json, AfterString, COLON)
          THEN /\ p.tokens[2].name = StringRange.off
               /\ p.tokens[2].name_size = StringRange.len
               /\ p.tokens[2].name_esc <=> StringHasBackslash
          ELSE /\ ~ret
               /\ p.unparsed = AfterString - 1
               /\ p.tokens[2].name = 0
    /\ StringParsed /\ ~StringMatch.ok =>
          /\ ~ret
          /\ p.json[1] = DQUOTE =>
                str(p.tokens[1]) = 0 /\ str_size(p.tokens[1]) = 0
          /\ p.json[1] = LBRACE =>
                p.tokens[2].name = 0 /\ p.tokens[2].name_size = 0

\* the string "\uaaaa" has been accepted as the text, and the name "\"" of a
\* member, both with the escaped flag
C23_Witness ==
    /\ StringParsed
    /\ StringMatch.ok
    /\ StringHasBackslash
    /\ ret
    /\ \/ /\ p.json = <<DQUOTE>> \o uXXXX(<<Cha, Cha, Cha, Cha>>) \o <<DQUOTE>>
          /\ p.tokens[1].value_esc
          /\ str_size(p.tokens[1]) = 6
       \/ /\ p.json = <<LBRACE, DQUOTE, BACKSLASH, DQUOTE, DQUOTE, COLON, Ch1,
                        RBRACE>>
          /\ p.tokens[2].name_esc
          /\ p.tokens[2].name_size = 2

(***************************************************************************)
(* Growth of the token array with mxjson_resize.                           *)
(***************************************************************************)
\* at most MaxGrow atoms of GrowAtoms in a text of SpecGrow
MaxGrow == 5

\* brackets, a comma, a number and an object with one member
GrowAtoms ==
    {<<LBRACKET>>, <<RBRACKET>>, <<COMMA>>, <<Ch1>>,
     <<LBRACE, DQUOTE, Cha, DQUOTE, COLON, Ch1, RBRACE>>}

\* the contexts with mxjson_resize: any init_count, with or without a caller
\* array
GrowConfigs == {c \in Configs : c.resize_fn = "mxjson_resize"}

InitGrow == InitWith(GrowConfigs)

NextGrow ==
    \/ ParseAtoms(GrowAtoms, MaxGrow, 1)
    \/ ParseJson

SpecGrow == InitGrow /\ [][NextGrow]_vars

\* a capacity that no text of SpecGrow fills: an atom yields at most two
\* tokens, and one more is taken for the member that may follow
NoGrowthCount == 2 * MaxGrow + 2

\* mxjson_parse on a context whose first allocation has NoGrowthCount records
NoGrowthParse(json) ==
    mxjson_parse(mxjson_init(NoGrowthCount, FALSE, NoArray, "mxjson_resize"),
                 json)

\* C24: with mxjson_resize, from any init_count and with or without a caller
\* array, mxjson_parse returns the same value and leaves the same idx, the
\* same unparsed remainder and the same records 1 .. idx as on a context
\* whose first allocation is never outgrown; and the growth step that
\* mxjson_token would take in any state of the parse leaves every record of
\* the array as it is.
C24_GrowthPreservesResult ==
    /\ Returned =>
          Let(NoGrowthParse(p.json), LAMBDA q :
              /\ q.p.count = NoGrowthCount
              /\ ret = q.ok
              /\ p.idx = q.p.idx
              /\ p.unparsed = q.p.unparsed
              /\ \A i \in 1 .. p.idx : p.tokens[i] = q.p.tokens[i])
    /\ pc = "parse_json" =>
          Let(mxjson_resize(p, mxutil_size_p2(p.count)).p, LAMBDA g :
              /\ g.count > p.count
              /\ \A i \in 0 .. p.count - 1 : g.tokens[i] = p.tokens[i])

\* [{"a":1},{"a":1}] parsed from init_count 0 without a caller array: the
\* array grew from 2 to 4 to 8 records
C24_Witness ==
    /\ Returned
    /\ ret
    /\ ~fresh.init_tokens
    /\ fresh.init_count = 0
    /\ p.idx = 5
    /\ p.count = 8
    /\ p.tokens[4].parent = 1
    /\ p.tokens[1].children = 2

(***************************************************************************)
(* C25: every call of the resize callback that mxjson_parse makes passes a *)
(* size_hint that is greater than p->count and at least 2, so that the     *)
(* assertions of mxjson_resize and mxjson_test_resize hold; size_hint 0 is *)
(* passed by mxjson_free only, and by every mxjson_free of a context with  *)
(* a callback.                                                             *)
(***************************************************************************)
C25_SizeHintAboveCount ==
    /\ pc \in {"parse_json", "returned"} /\ p.resize_call.made =>
          /\ p.resize_call.size_hint > p.resize_call.count
          /\ p.resize_call.size_hint >= 2
    /\ p.resize_call.made /\ p.resize_call.size_hint = 0 => pc = "freed"
    /\ pc = "freed" /\ p.resize_fn # "NULL" =>
          p.resize_call.made /\ p.resize_call.size_hint = 0

\* a caller array of three records and mxjson_test_resize: the third token
\* of [[1 asks for four records while count is three, and is refused
C25_Witness ==
    /\ Returned
    /\ refused
    /\ p.init_tokens
    /\ p.resize_fn = "mxjson_test_resize"
    /\ p.resize_call = [size_hint |-> 4, count |-> 3, made |-> TRUE]

\* mxjson_token has returned true and no call of it has returned false
\* since: the parse goes on, or has ended for another reason
TokenSucceeded ==
    \/ pc = "parse_json"
    \/ Returned /\ ~p.alloc_refused

(***************************************************************************)
(* C26: when mxjson_token has returned true, idx < count (its assertion    *)
(* holds) and the array has the records 0 .. count - 1; the record         *)
(* p->token points to, the current parent and the parent of every token    *)
(* are among them.  While tokens is NULL there is no record: when the      *)
(* first allocation is refused the parse returns false with idx = 1 and    *)
(* nothing written.                                                        *)
(***************************************************************************)
C26_IdxBelowCount ==
    /\ TokenSucceeded =>
          /\ p.where # "NULL"
          /\ DOMAIN p.tokens = 0 .. p.count - 1
          /\ 1 <= p.idx /\ p.idx < p.count
          /\ p.token = p.idx
          /\ p.current_parent <= p.idx
          /\ \A i \in 1 .. p.idx : p.tokens[i].parent < i
    /\ p.where = "NULL" => p.tokens = NoArray /\ p.count = 0
    /\ Returned /\ p.where = "NULL" =>
          ~ret /\ p.alloc_refused /\ p.idx = 1

\* mxjson_test_resize and no caller array: the first allocation is refused
C26_Witness ==
    /\ Returned
    /\ p.alloc_refused
    /\ p.resize_fn = "mxjson_test_resize"
    /\ p.resize_call = [size_hint |-> 2, count |-> 0, made |-> TRUE]
    /\ p.where = "NULL"
    /\ p.idx = 1

(***************************************************************************)
(* C27: every write through p->token goes to the record idx of the array   *)
(* p->tokens points to: p->token is never NULL, never a pointer into an    *)
(* array that a resize replaced or released, and never used after          *)
(* mxjson_token returned false.  Inside a parse p->token is the record     *)
(* idx of the current array; after a refused allocation the parse has      *)
(* returned.                                                               *)
(***************************************************************************)
C27_NoStaleTokenPointer ==
    /\ ~p.bad_deref
    /\ pc = "parse_json" => TokenValid(p)
    /\ p.alloc_refused => pc \in {"returned", "freed"} /\ ~ret

\* the array has grown from 2 to 4 records inside a parse and p->token points
\* into the new array
C27_Witness ==
    /\ pc = "parse_json"
    /\ p.resize_call = [size_hint |-> 4, count |-> 2, made |-> TRUE]
    /\ p.where = "heap"
    /\ p.count = 4
    /\ p.idx = 2
    /\ TokenValid(p)

(***************************************************************************)
(* Termination of mxjson_parse.                                            *)
(***************************************************************************)
\* at most MaxLoop atoms of NestAtoms in a text of SpecLoop
MaxLoop == 4

NextLoop ==
    \/ ParseAtoms(NestAtoms, MaxLoop, 1)
    \/ ParseJson

\* one parse on each context of Configs
SpecLoop == Init /\ [][NextLoop]_vars

\* what the loop of mxjson_ascend relies on: the parent of every token is a
\* smaller index, and the sentinel is neither an array nor an object
AscendDescends ==
    pc = "parse_json" =>
        /\ p.tokens[0].value_type = MXJSON_NONE
        /\ \A i \in 1 .. p.idx : p.tokens[i].parent < i

\* the cursor of the loop of mxjson_parse_json is inside the text
CursorInside ==
    pc = "parse_json" => s <= Len(p.json)

\* an iteration of the loop of mxjson_parse_json that does not fail consumes
\* at least one byte
IterationConsumes ==
    pc = "parse_json" =>
        /\ pc' = "parse_json" => s' > s
        /\ pc' = "returned" /\ ret' => p'.unparsed > s
        /\ pc' \in {"parse_json", "returned"}

(***************************************************************************)
(* C28: mxjson_parse terminates for every text and every configuration.    *)
(* The number of bytes left, Len(json) - s, is never negative, and each     *)
(* iteration of the loop of mxjson_parse_json ends the loop or makes it     *)
(* smaller (it consumes at least one byte unless it fails); each iteration  *)
(* of the loop of mxjson_ascend stops or goes to the parent, a smaller      *)
(* index, and stops at the sentinel.                                        *)
(***************************************************************************)
C28_ParseTerminates ==
    /\ []AscendDescends
    /\ []CursorInside
    /\ [][IterationConsumes]_vars

\* [[]] has been accepted after two iterations, the second of which closed
\* both arrays
C28_Witness ==
    /\ Returned
    /\ ret
    /\ p.json = <<LBRACKET, LBRACKET, RBRACKET, RBRACKET>>
    /\ p.idx = 2
    /\ p.tokens[1].next = 3
    /\ p.tokens[2].next = 3

(***************************************************************************)
(* Which objects and arrays of a text are closed, found by scanning it.    *)
(***************************************************************************)
\* the index of the bracket or brace that closes the object or array opened
\* before index j of w, depth more being open at j; 0 if w ends before it
RECURSIVE CloserOf(_, _, _)
CloserOf(w, j, depth) ==
    IF j > Len(w) THEN 0
    ELSE IF w[j] = DQUOTE THEN CloserOf(w, ScanString(w, j + 1), depth)
    ELSE IF w[j] \in {LBRACKET, LBRACE} THEN CloserOf(w, j + 1, depth + 1)
    ELSE IF w[j] \notin {RBRACKET, RBRACE} THEN CloserOf(w, j + 1, depth)
    ELSE IF depth = 0 THEN j
    ELSE CloserOf(w, j + 1, depth - 1)

\* the part of the text that the last mxjson_parse consumed
Consumed == SubSeq(p.json, 1, p.unparsed)

\* token k is the object or array that the k-th value of the consumed text
\* opens; it is closed if its closing bracket has been consumed, and then
\* next is an index after k and at most idx + 1; if not, next is 0 and so is
\* mxjson_next
ContainerNext(k) ==
    Let(ValueStarts(Consumed, 1), LAMBDA starts :
        /\ k <= Len(starts)
        /\ Consumed[starts[k]] \in {LBRACKET, LBRACE}
        /\ IF CloserOf(Consumed, starts[k] + 1, 0) = 0
           THEN p.tokens[k].next = 0 /\ mxjson_next(p, k) = 0
           ELSE k < p.tokens[k].next /\ p.tokens[k].next <= p.idx + 1)

RECURSIVE ClosersMatched(_, _, _)
ClosersMatched(w, j, depth) ==
    IF j > Len(w) THEN TRUE
    ELSE IF w[j] = DQUOTE THEN ClosersMatched(w, ScanString(w, j + 1), depth)
    ELSE IF w[j] \in {LBRACKET, LBRACE} THEN ClosersMatched(w, j + 1, depth + 1)
    ELSE IF w[j] \notin {RBRACKET, RBRACE} THEN ClosersMatched(w, j + 1, depth)
    ELSE depth > 0 /\ ClosersMatched(w, j + 1, depth - 1)

(***************************************************************************)
(* C30: whenever the context holds a token array, the sentinel tokens[0]   *)
(* has value_type NONE, parent 0 and next 0, whatever was parsed before    *)
(* and whatever memory the array came from.  So the loop of mxjson_ascend  *)
(* stops at index 0 wherever the cursor is, consuming white space only,    *)
(* and the text a parse has consumed has no closing bracket or brace       *)
(* without its opener.                                                     *)
(***************************************************************************)
C30_SentinelStaysNone ==
    /\ p.where # "NULL" =>
          /\ p.tokens[0].value_type = MXJSON_NONE
          /\ p.tokens[0].parent = 0
          /\ p.tokens[0].next = 0
          /\ \A j \in 0 .. Len(p.json) :
                AscendLoop(p, j, MXJSON_IDX_NONE) =
                    [p |-> p, s |-> mxjson_consume_ws(p.json, j),
                     parent |-> MXJSON_IDX_NONE]
    /\ pc \in {"parse_json", "returned"} =>
          ClosersMatched(SubSeq(p.json, 1, IF Returned THEN p.unparsed ELSE s),
                         1, 0)

\* []] parsed in a caller array of uncleared records: the second ] is left
\* unparsed
C30_Witness ==
    /\ Returned
    /\ ~ret
    /\ p.where = "init"
    /\ fresh.init_mem[0] = JunkToken
    /\ p.json = <<LBRACKET, RBRACKET, RBRACKET>>
    /\ p.unparsed = 2
    /\ p.tokens[1].next = 2
    /\ p.tokens[0].children >= 1

=============================================================================
